---- MODULE Spec2Model ----
(***************************************************************************)
(* A model of the backup-file engine of sigbak (sbk.c): the context of an  *)
(* opened Signal backup, the frame reader with its AES-CTR/HMAC stream,    *)
(* the random-access extraction of file payloads and the replay that       *)
(* builds the in-memory database.                                          *)
(*                                                                         *)
(* The backup file is a sequence of bytes.  The two library primitives are *)
(* modelled by small stand-ins that keep the properties the engine relies  *)
(* on: AES-256-CTR is a stream cipher whose keystream depends on the key   *)
(* and on the IV (here: addition modulo 256 of a keystream byte that is    *)
(* different for every counter the model reaches), HMAC-SHA-256 is a keyed *)
(* hash in which changing one input byte changes the digest.  The protobuf *)
(* encoding of an encrypted frame is abstracted to one byte that selects   *)
(* the decoded frame in FrameTable, followed for some frames by a byte     *)
(* that selects its text or length.  The encodings lie CodeGap apart, so   *)
(* that a record decrypted under another counter than the one it was       *)
(* written with gives bytes that do not decode, as the output of AES under *)
(* a wrong IV does.                                                        *)
(***************************************************************************)
EXTENDS Integers, Sequences, FiniteSets, TLC

SBK_IV_LEN == 16
SBK_MAC_LEN == 10
SBK_LEN_LEN == 4

\* Bounds of the model.
MaxFrames == 2        \* encrypted frames in a backup
MaxHeld == 1          \* FileRefs the caller keeps from sbk_get_frame

Byte == 256
Half == 65536

Min(a, b) == IF a < b THEN a ELSE b

(***************************************************************************)
(* uint32_t values.  TLC's integers are 32-bit signed, so a uint32_t is    *)
(* kept as <<high 16 bits, low 16 bits>>.                                  *)
(***************************************************************************)
\* (b0 << 24) | (b1 << 16) | (b2 << 8) | b3
U32FromBytes(b0, b1, b2, b3) == <<b0 * Byte + b1, b2 * Byte + b3>>

\* counter >> 24, counter >> 16, counter >> 8, counter, each cut to a byte
U32ToBytes(c) == <<c[1] \div Byte, c[1] % Byte, c[2] \div Byte, c[2] % Byte>>

\* A variant that stops at the largest value.
U32Inc_saturating(c) ==
    IF c[2] + 1 < Half THEN <<c[1], c[2] + 1>>
    ELSE IF c[1] + 1 < Half THEN <<c[1] + 1, 0>>
    ELSE c

\* c++ on a uint32_t
U32Inc(c) ==
    IF c[2] + 1 < Half THEN <<c[1], c[2] + 1>>
    ELSE <<(c[1] + 1) % Half, 0>>

RECURSIVE U32Add(_, _)
U32Add(c, n) == IF n = 0 THEN c ELSE U32Add(U32Inc(c), n - 1)

\* c + n on uint32_t values, for n below 65536.
U32Plus(c, n) ==
    <<(c[1] + ((c[2] + n) \div Half)) % Half, (c[2] + n) % Half>>

\* The number a uint32_t holds, for the values below 2^31.
U32Value(c) == c[1] * Half + c[2]

\* a < b as unsigned 32-bit values
U32Less(a, b) == a[1] < b[1] \/ (a[1] = b[1] /\ a[2] < b[2])

(***************************************************************************)
(* Library primitives.                                                     *)
(***************************************************************************)
\* Keystream byte i (from 1) of AES-256-CTR under (key, iv).
KeyStream(key, iv, i) ==
    (key + iv[1] + iv[2] + iv[3] + iv[4] + iv[5] + i) % Byte

\* EVP_DecryptUpdate in CTR mode over a whole buffer, the stream at offset off.
AesCtrDecrypt(key, iv, off, data) ==
    [i \in 1..Len(data) |-> (data[i] + Byte - KeyStream(key, iv, off + i)) % Byte]

AesCtrEncrypt(key, iv, off, data) ==
    [i \in 1..Len(data) |-> (data[i] + KeyStream(key, iv, off + i)) % Byte]

\* HMAC_Init_ex / HMAC_Update / HMAC_Final: a running keyed hash.
HmacInit(key) == (key * 7 + 1) % Byte

RECURSIVE HmacUpdate(_, _)
HmacUpdate(h, data) ==
    IF data = <<>> THEN h
    ELSE HmacUpdate((h * 5 + Head(data) + 1) % Byte, Tail(data))

\* The digest: its first SBK_MAC_LEN bytes are all the engine looks at.
HmacFinal(h) == [j \in 1..SBK_MAC_LEN |-> (h + 3 * j) % Byte]

(***************************************************************************)
(* Frames.  Signal__BackupFrame with the fields the engine reads; a field  *)
(* that is absent has its has_ flag FALSE.                                 *)
(***************************************************************************)
NoFrame ==
    [kind |-> "none", has_sql |-> FALSE, sql |-> "", params |-> <<>>,
     has_length |-> FALSE, length |-> <<0, 0>>,
     has_ids |-> FALSE, rowid |-> 0, attachmentid |-> 0,
     has_version |-> FALSE, version |-> 0, has_end |-> FALSE, end |-> FALSE,
     has_iv |-> FALSE, iv |-> <<>>, has_salt |-> FALSE, salt |-> <<>>]

\* Length a file payload is declared with; the length fields are uint32
\* values, kept like the counter as <<high half, low half>>.
PayloadLen == 2

\* The decoded frame of every one-byte encoding; any other byte does not decode.
FrameTable ==
    << [NoFrame EXCEPT !.kind = "statement", !.has_sql = TRUE, !.sql = "ok"],
       [NoFrame EXCEPT !.kind = "version", !.has_version = TRUE, !.version = 68],
       [NoFrame EXCEPT !.kind = "attachment", !.has_length = TRUE,
                       !.length = <<0, PayloadLen>>, !.has_ids = TRUE,
                       !.rowid = 1,
                       !.attachmentid = 1],
       [NoFrame EXCEPT !.kind = "end", !.has_end = TRUE, !.end = TRUE],
       [NoFrame EXCEPT !.kind = "statement", !.has_sql = TRUE, !.sql = "fail"],
       [NoFrame EXCEPT !.kind = "attachment", !.has_ids = TRUE, !.rowid = 2,
                       !.attachmentid = 1],
       [NoFrame EXCEPT !.kind = "avatar", !.has_length = TRUE,
                       !.length = <<0, PayloadLen>>],
       [NoFrame EXCEPT !.kind = "end", !.has_end = TRUE, !.end = FALSE] >>

\* The distance between the encodings of two frames.
CodeGap == 32
\* A byte that is no encoding of a frame.
Junk == CodeGap \div 2
\* Encodings of the header frame: complete, without IV, with an IV of 8 bytes.
HdrOk == Junk - 2
HdrNoIv == Junk - 1
HdrShortIv == Junk + 1

\* The encoding of FrameTable[i].
FrameCode(i) == (i - 1) * CodeGap

\* Statements with other texts and with parameters: the encoding of a
\* statement followed by a byte that selects one of them.
StatementTable ==
    << [sql |-> "CREATE TABLE sqlite_sequence(name,seq)", params |-> <<"seq">>],
       [sql |-> "create table sqlite3 (seq)", params |-> <<"seq">>] >>

\* The encoding of the statement StatementTable[k], as a number: its first
\* byte and Byte times its second.
StatementCode(k) == FrameCode(1) + Byte * k

\* Attachment frames with other declared lengths (the field is a uint32 of
\* the backup, whatever follows the frame): the encoding of an attachment
\* followed by a byte that selects one of them.  The first is 0xfffffffa.
LengthTable == << <<Half - 1, Half - 6>> >>

\* The encoding of the attachment frame with the length LengthTable[k].
LengthCode(k) == FrameCode(3) + Byte * k

\* The bytes of an encoding.
PlainBytes(p) == IF p < Byte THEN <<p>> ELSE <<p % Byte, p \div Byte>>

\* The encodings the frames of the backups are written with.
PlainCodes == {FrameCode(i) : i \in 1..6} \cup {Junk}

\* The encodings of which a backup of the model holds at most one: the frame
\* with end = false, the other statements and the other lengths.
VariantCodes ==
    {FrameCode(8)} \cup {StatementCode(k) : k \in DOMAIN StatementTable}
        \cup {LengthCode(k) : k \in DOMAIN LengthTable}

\* signal__backup_frame__unpack, on the abstract encoding.
UnpackFrame(buf) ==
    IF buf = <<>> THEN NoFrame
    ELSE IF buf[1] % CodeGap = 0
    THEN IF Len(buf) = 1 THEN FrameTable[buf[1] \div CodeGap + 1]
         ELSE IF Len(buf) = 2 /\ buf[1] = FrameCode(1)
                 /\ buf[2] \in DOMAIN StatementTable
         THEN [FrameTable[1] EXCEPT !.sql = StatementTable[buf[2]].sql,
                                    !.params = StatementTable[buf[2]].params]
         ELSE IF Len(buf) = 2 /\ buf[1] = FrameCode(3)
                 /\ buf[2] \in DOMAIN LengthTable
         THEN [FrameTable[3] EXCEPT !.length = LengthTable[buf[2]], !.rowid = 3]
         ELSE NoFrame
    ELSE IF buf[1] = HdrOk /\ Len(buf) > SBK_IV_LEN
    THEN [NoFrame EXCEPT !.kind = "header", !.has_iv = TRUE,
                         !.iv = SubSeq(buf, 2, SBK_IV_LEN + 1),
                         !.has_salt = Len(buf) > SBK_IV_LEN + 1,
                         !.salt = SubSeq(buf, SBK_IV_LEN + 2, Len(buf))]
    ELSE IF buf[1] = HdrNoIv THEN [NoFrame EXCEPT !.kind = "header"]
    ELSE IF buf[1] = HdrShortIv
    THEN [NoFrame EXCEPT !.kind = "header", !.has_iv = TRUE, !.iv = Tail(buf)]
    ELSE NoFrame

\* sbk_has_file_data
sbk_has_file_data(frm) == frm.kind \in {"attachment", "avatar", "sticker"}

(***************************************************************************)
(* Key derivation.  sbk_compute_keys: a deterministic function of          *)
(* passphrase and salt; the derived keys are never zero.                    *)
(***************************************************************************)
RECURSIVE Sum(_)
Sum(s) == IF s = <<>> THEN 0 ELSE Head(s) + Sum(Tail(s))

Passphrase == <<1, 2, 3>>
ZeroKey == 0
CipherKeyOf(passphr, salt) == 1 + ((Sum(salt) + 2 * Sum(passphr)) % 100)
MacKeyOf(passphr, salt) == 101 + ((3 * Sum(salt) + Sum(passphr)) % 100)

(***************************************************************************)
(* The backup file, as Signal writes it: the header record, then for every *)
(* frame a record of 4 length bytes, the ciphertext and SBK_MAC_LEN MAC    *)
(* bytes, followed by the payload and its MAC when the frame announces a   *)
(* file.  Every frame and every payload uses the next counter value.       *)
(***************************************************************************)
BE32(n) == <<0, 0, n \div Byte, n % Byte>>

Salt == <<7, 9>>
HdrIvs ==
    { [i \in 1..SBK_IV_LEN |-> i - 1],
      [i \in 1..SBK_IV_LEN |-> IF i <= 3 THEN 255 ELSE IF i = 4 THEN 254 ELSE i] }

IvWith(iv, c) == U32ToBytes(c) \o SubSeq(iv, 5, SBK_IV_LEN)

PayloadPlain == [i \in 1..PayloadLen |-> 64 + i]

\* One byte of a ciphertext changed, so that a frame still decodes (to the
\* frame with the next encoding).
Corrupt(ct) == [ct EXCEPT ![1] = (ct[1] + CodeGap) % Byte]

FrameRecord(iv, c, p, bad) ==
    LET ct0 == AesCtrEncrypt(CipherKeyOf(Passphrase, Salt), IvWith(iv, c), 0,
                             PlainBytes(p))
        mac == HmacFinal(HmacUpdate(HmacInit(MacKeyOf(Passphrase, Salt)), ct0))
        ct == IF bad THEN Corrupt(ct0) ELSE ct0
    IN  BE32(Len(ct) + SBK_MAC_LEN) \o ct \o mac

\* A file payload with the bytes plain, written under the counter c.
FileBytes(iv, c, plain, bad) ==
    LET ivc == IvWith(iv, c)
        ct0 == AesCtrEncrypt(CipherKeyOf(Passphrase, Salt), ivc, 0, plain)
        mac == HmacFinal(HmacUpdate(HmacUpdate(
                   HmacInit(MacKeyOf(Passphrase, Salt)), ivc), ct0))
        ct == IF bad THEN Corrupt(ct0) ELSE ct0
    IN  ct \o mac

PayloadBytes(iv, c, bad) == FileBytes(iv, c, PayloadPlain, bad)

HasPayload(p) ==
    /\ UnpackFrame(PlainBytes(p)) # NoFrame
    /\ sbk_has_file_data(UnpackFrame(PlainBytes(p)))
    /\ UnpackFrame(PlainBytes(p)).has_length

\* The records of the frames plain[k..], the first encrypted under counter c;
\* badf / badd: the index of the frame whose ciphertext / payload is corrupted.
RECURSIVE FrameBytes(_, _, _, _, _, _)
FrameBytes(iv, c, plain, k, badf, badd) ==
    IF k > Len(plain) THEN <<>>
    ELSE IF HasPayload(plain[k])
    THEN FrameRecord(iv, c, plain[k], badf = k)
             \o PayloadBytes(iv, U32Inc(c), badd = k)
             \o FrameBytes(iv, U32Inc(U32Inc(c)), plain, k + 1, badf, badd)
    ELSE FrameRecord(iv, c, plain[k], badf = k)
             \o FrameBytes(iv, U32Inc(c), plain, k + 1, badf, badd)

HeaderRecord(hdr, iv) ==
    LET body == IF hdr = HdrOk THEN <<hdr>> \o iv \o Salt
                ELSE IF hdr = HdrShortIv THEN <<hdr>> \o SubSeq(iv, 1, 8)
                ELSE <<hdr>>
    IN  BE32(Len(body)) \o body

BackupBytes(b) ==
    HeaderRecord(b.hdr, b.iv)
        \o FrameBytes(b.iv, U32FromBytes(b.iv[1], b.iv[2], b.iv[3], b.iv[4]),
                      b.plain, 1, b.badf, b.badd)

RECURSIVE SeqsUpTo(_, _)
SeqsUpTo(S, n) ==
    IF n = 0 THEN {<<>>}
    ELSE LET T == SeqsUpTo(S, n - 1)
         IN  T \cup {Append(t, x) : t \in {u \in T : Len(u) = n - 1}, x \in S}

\* The frame sequences with one frame of VariantCodes.
VariantPlains ==
    UNION { {[plain EXCEPT ![k] = v] : k \in DOMAIN plain, v \in VariantCodes} :
                plain \in SeqsUpTo(PlainCodes, MaxFrames) }

\* The backups of the model: well-formed ones, with at most one corrupted
\* ciphertext, and ones with a bad header.
Backups ==
    { [hdr |-> HdrOk, iv |-> iv, plain |-> plain, badf |-> 0, badd |-> 0] :
          iv \in HdrIvs, plain \in SeqsUpTo(PlainCodes, MaxFrames) }
    \cup
    { [hdr |-> HdrOk, iv |-> [i \in 1..SBK_IV_LEN |-> i - 1], plain |-> plain,
       badf |-> 0, badd |-> 0] : plain \in VariantPlains }
    \cup
    UNION { { [hdr |-> HdrOk, iv |-> [i \in 1..SBK_IV_LEN |-> i - 1],
               plain |-> plain, badf |-> k, badd |-> 0] : k \in 1..Len(plain) }
            \cup
            { [hdr |-> HdrOk, iv |-> [i \in 1..SBK_IV_LEN |-> i - 1],
               plain |-> plain, badf |-> 0, badd |-> k] :
                  k \in {j \in 1..Len(plain) : HasPayload(plain[j])} } :
            plain \in SeqsUpTo(PlainCodes, MaxFrames) }
    \cup
    { [hdr |-> h, iv |-> [i \in 1..SBK_IV_LEN |-> i - 1], plain |-> <<FrameCode(1)>>,
       badf |-> 0, badd |-> 0] : h \in {HdrNoIv, HdrShortIv, FrameCode(1)} }

(***************************************************************************)
(* The state: the bytes of the backup file, the context (struct sbk_ctx),  *)
(* the FileRefs the caller holds, and a record of the calls made so far.   *)
(***************************************************************************)
VARIABLES
    backup,     \* how the backup file was written (never changes)
    file,       \* the bytes of the backup file
    state,      \* "new" (after sbk_ctx_new), "open", "failed", "closed"
    ctx,        \* struct sbk_ctx
    held,       \* struct sbk_file objects handed to the caller
    last,       \* the last call: its name, result and what it returned
    pass,       \* the frames returned since the last rewind
    extracted,  \* the extractions done: FileRef, result, bytes written
    input,      \* the arguments of a function that is called on its own
    output      \* what that function returned

vars == <<backup, file, state, ctx, held, last, pass, extracted, input, output>>

\* No function is called on its own in the runs of the engine.
NoInput == [fn |-> "none"]
NoOutput == [fn |-> "none"]

\* struct sbk_file; NoFile stands for the NULL pointer.
NoFile == [pos |-> 0 - 1, len |-> <<0, 0>>, counter |-> <<0, 0>>]

\* sqlite3 *db; NoDb stands for the NULL pointer.
\* Of SQLite the model keeps the calls that reach it: the statements prepared,
\* the parameters bound to each, and the statements stepped (rows).
NoDb ==
    [open |-> FALSE, prepared |-> <<>>, binds |-> <<>>, rows |-> <<>>,
     user_version |-> 0]

BUFSIZ == 1024

SetError(c, msg) == [c EXCEPT !.error = msg]

\* fread of size bytes at the file position: the bytes, or failure at the end
\* of the file.
sbk_read(c, size) ==
    IF c.pos + size <= Len(file)
    THEN [ok |-> TRUE, buf |-> SubSeq(file, c.pos + 1, c.pos + size),
          ctx |-> [c EXCEPT !.pos = @ + size]]
    ELSE [ok |-> FALSE, buf |-> <<>>,
          ctx |-> SetError([c EXCEPT !.pos = IF @ < Len(file) THEN Len(file) ELSE @],
                           "Unexpected end of file")]

\* The 4 length bytes as an int32_t; a set top bit gives a negative length,
\* which is all the caller needs to know of it.
Int32FromBytes(b) ==
    IF b[1] >= 128 THEN 0 - 1
    ELSE ((b[1] * Byte + b[2]) * Byte + b[3]) * Byte + b[4]

\* A variant that rejects negative lengths only.
ReadFrameData_negative_only(c, len) ==
    IF len < 0
    THEN [ok |-> FALSE, buf |-> <<>>, ctx |-> SetError(c, "Invalid frame size")]
    ELSE sbk_read(c, len)

\* sbk_read_frame from the length on: a frame of len bytes is read into ibuf.
ReadFrameData(c, len) ==
    IF len <= 0
    THEN [ok |-> FALSE, buf |-> <<>>, ctx |-> SetError(c, "Invalid frame size")]
    ELSE sbk_read(c, len)

\* sbk_read_frame after the read of the 4 length bytes (r1).
ReadFrameLen(r1) ==
    IF ~r1.ok THEN r1 ELSE ReadFrameData(r1.ctx, Int32FromBytes(r1.buf))

sbk_read_frame(c) == ReadFrameLen(sbk_read(c, SBK_LEN_LEN))

\* A variant that leaves the IV as the last decryption left it.
sbk_decrypt_init_keeps_iv(c, counter) == c

\* The IV gets the counter in its first four bytes; HMAC and cipher restart.
sbk_decrypt_init(c, counter) ==
    [c EXCEPT !.iv = U32ToBytes(counter) \o SubSeq(@, 5, SBK_IV_LEN)]

\* A variant that accepts every MAC.
sbk_decrypt_final_unchecked(h, theirmac) == TRUE

\* memcmp(ourmac, theirmac, SBK_MAC_LEN) == 0
sbk_decrypt_final(h, theirmac) ==
    SubSeq(HmacFinal(h), 1, SBK_MAC_LEN) = SubSeq(theirmac, 1, SBK_MAC_LEN)

\* A variant that leaves the payload to be read by the next call.
sbk_skip_file_data_no_seek(c, frm) ==
    IF sbk_has_file_data(frm) /\ frm.has_length
    THEN [ok |-> TRUE, ctx |-> [c EXCEPT !.counter = U32Inc(@)]]
    ELSE [ok |-> FALSE, ctx |-> SetError(c, "Invalid frame")]

\* len + SBK_MAC_LEN is an addition of uint32_t; fseek gets its result as a
\* long of 64 bits.
sbk_skip_file_data(c, frm) ==
    IF sbk_has_file_data(frm) /\ frm.has_length
    THEN [ok |-> TRUE,
          ctx |-> [c EXCEPT !.pos = @ + U32Value(U32Plus(frm.length, SBK_MAC_LEN)),
                            !.counter = U32Inc(@)]]
    ELSE [ok |-> FALSE, ctx |-> SetError(c, "Invalid frame")]

\* sbk_unpack_frame, given what signal__backup_frame__unpack returned.
Unpacked(c, frm) ==
    [frm |-> frm, file |-> NoFile,
     ctx |-> IF frm = NoFrame THEN SetError(c, "Cannot unpack frame") ELSE c]

sbk_unpack_frame(c, buf) == Unpacked(c, UnpackFrame(buf))

\* A variant that takes the counter one step later.
sbk_get_file_late(c, frm) ==
    IF ~frm.has_length
    THEN [file |-> NoFile, ctx |-> SetError(c, "Invalid " \o frm.kind \o " frame")]
    ELSE [file |-> [pos |-> c.pos, len |-> frm.length,
                    counter |-> U32Inc(c.counter)],
          ctx |-> c]

\* The struct sbk_file of the payload that follows the frame just decoded.
sbk_get_file(c, frm) ==
    IF ~frm.has_length
    THEN [file |-> NoFile, ctx |-> SetError(c, "Invalid " \o frm.kind \o " frame")]
    ELSE [file |-> [pos |-> c.pos, len |-> frm.length, counter |-> c.counter],
          ctx |-> c]

NoFrameResult(c) == [ctx |-> c, frm |-> NoFrame, file |-> NoFile]

\* sbk_get_frame after sbk_skip_file_data (sk): the frame and its file f.
FileSkipped(sk, frm, f) ==
    IF ~sk.ok THEN NoFrameResult(sk.ctx)
    ELSE [ctx |-> sk.ctx, frm |-> frm, file |-> f]

\* sbk_get_frame after sbk_get_file (gf).
FileGot(gf, frm) ==
    IF gf.file = NoFile THEN NoFrameResult(gf.ctx)
    ELSE FileSkipped(sbk_skip_file_data(gf.ctx, frm), frm, gf.file)

\* sbk_get_frame after ctx->counter++: the file data that follows the frame.
FrameDecoded(c, frm, wantfile) ==
    IF ~sbk_has_file_data(frm) THEN [ctx |-> c, frm |-> frm, file |-> NoFile]
    ELSE IF wantfile THEN FileGot(sbk_get_file(c, frm), frm)
    ELSE FileSkipped(sbk_skip_file_data(c, frm), frm, NoFile)

\* sbk_get_frame after sbk_unpack_frame (up): eof is set by a frame with the
\* end field and the counter is incremented.
FrameUnpacked(up, wantfile) ==
    IF up.frm = NoFrame THEN NoFrameResult(up.ctx)
    ELSE FrameDecoded([up.ctx EXCEPT !.eof = IF up.frm.has_end THEN TRUE ELSE @,
                                     !.counter = U32Inc(@)],
                      up.frm, wantfile)

\* sbk_get_frame after sbk_decrypt_init: the HMAC over the ciphertext ct is
\* compared with mac, and the decrypted bytes are unpacked.
FrameDecrypted(c, ct, mac, wantfile) ==
    IF ~sbk_decrypt_final(HmacUpdate(HmacInit(c.mackey), ct), mac)
    THEN NoFrameResult(SetError(c, "HMAC mismatch"))
    ELSE FrameUnpacked(
             sbk_unpack_frame(c, AesCtrDecrypt(c.cipherkey, c.iv, 0, ct)),
             wantfile)

\* sbk_get_frame after sbk_read_frame (rf); firstframe: ctx->firstframe.
FrameRead(rf, firstframe, wantfile) ==
    IF ~rf.ok THEN NoFrameResult(rf.ctx)
    ELSE IF firstframe
    THEN sbk_unpack_frame([rf.ctx EXCEPT !.firstframe = FALSE], rf.buf)
    ELSE IF Len(rf.buf) <= SBK_MAC_LEN
    THEN NoFrameResult(SetError(rf.ctx, "Invalid frame size"))
    ELSE FrameDecrypted(sbk_decrypt_init(rf.ctx, rf.ctx.counter),
                        SubSeq(rf.buf, 1, Len(rf.buf) - SBK_MAC_LEN),
                        SubSeq(rf.buf, Len(rf.buf) - SBK_MAC_LEN + 1, Len(rf.buf)),
                        wantfile)

\* sbk_get_frame(ctx, file); wantfile: the file argument is not NULL.
sbk_get_frame(c, wantfile) ==
    IF c.eof THEN NoFrameResult(c)
    ELSE FrameRead(sbk_read_frame(c), c.firstframe, wantfile)

sbk_rewind(c) == [c EXCEPT !.pos = 0, !.eof = FALSE, !.firstframe = TRUE]

(***************************************************************************)
(* Extraction of a file payload.                                           *)
(***************************************************************************)
\* The loop of sbk_write_file and sbk_get_file_as_string: len bytes are read
\* in pieces of at most BUFSIZ, fed to HMAC and cipher, and appended to out.
\* ibuflen = (len < BUFSIZ) ? len : BUFSIZ, for a len kept as a uint32.
PieceLen(len) == IF len[1] > 0 THEN BUFSIZ ELSE Min(len[2], BUFSIZ)

\* len -= ibuflen, for an ibuflen of at most len and below Half.
U32Minus(len, n) ==
    IF len[2] >= n THEN <<len[1], len[2] - n>>
    ELSE <<len[1] - 1, len[2] + Half - n>>

RECURSIVE DecryptLoop(_, _, _, _, _)
RECURSIVE DecryptPiece(_, _, _, _, _)

\* One turn of the loop after its sbk_read (r).
DecryptPiece(r, len, off, h, out) ==
    IF ~r.ok THEN [ok |-> FALSE, ctx |-> r.ctx, h |-> h, out |-> out]
    ELSE DecryptLoop(r.ctx, U32Minus(len, Len(r.buf)), off + Len(r.buf),
                     HmacUpdate(h, r.buf),
                     out \o AesCtrDecrypt(r.ctx.cipherkey, r.ctx.iv, off, r.buf))

DecryptLoop(c, len, off, h, out) ==
    IF len = <<0, 0>> THEN [ok |-> TRUE, ctx |-> c, h |-> h, out |-> out]
    ELSE DecryptPiece(sbk_read(c, PieceLen(len)), len, off, h, out)

\* sbk_write_file after the read of the MAC (rm); h, out: the HMAC and the
\* bytes written by the loop.
WriteFileMac(rm, h, out, f) ==
    IF ~rm.ok THEN [ret |-> 0 - 1, ctx |-> rm.ctx, out |-> out, file |-> f]
    ELSE IF ~sbk_decrypt_final(h, rm.buf)
    THEN [ret |-> 0 - 1, ctx |-> SetError(rm.ctx, "HMAC mismatch"),
          out |-> out, file |-> f]
    ELSE [ret |-> 0, ctx |-> rm.ctx, out |-> out, file |-> f]

\* sbk_write_file after its loop (lp).
WriteFileLoop(lp, f) ==
    IF ~lp.ok THEN [ret |-> 0 - 1, ctx |-> lp.ctx, out |-> lp.out, file |-> f]
    ELSE WriteFileMac(sbk_read(lp.ctx, SBK_MAC_LEN), lp.h, lp.out, f)

\* sbk_write_file after sbk_decrypt_init: the IV is fed to the HMAC first.
WriteFileInit(c, f) ==
    WriteFileLoop(
        DecryptLoop(c, f.len, 0, HmacUpdate(HmacInit(c.mackey), c.iv), <<>>), f)

\* A variant that seeks back to where the backup was read before the call.
sbk_write_file_seeks_back(c, f) ==
    [WriteFileInit(sbk_decrypt_init([c EXCEPT !.pos = f.pos], f.counter), f)
        EXCEPT !.ctx.pos = c.pos]

\* sbk_write_file(ctx, file, fp): the result, the bytes written to fp, and the
\* struct sbk_file as the call leaves it.
sbk_write_file(c, f) ==
    WriteFileInit(sbk_decrypt_init([c EXCEPT !.pos = f.pos], f.counter), f)

\* The error exit of sbk_get_file_as_string frees the buffer.
StringOrNull(r) == IF r.ret = 0 THEN r ELSE [r EXCEPT !.out = <<>>]

\* sbk_get_file_as_string(ctx, file): ret 0 and the string, or ret -1 (NULL).
\* The same steps as sbk_write_file, into a buffer instead of a file.
sbk_get_file_as_string(c, f) ==
    StringOrNull(
        WriteFileInit(sbk_decrypt_init([c EXCEPT !.pos = f.pos], f.counter), f))

(***************************************************************************)
(* The replay that builds the database.                                    *)
(***************************************************************************)
\* tolower, on a string of one character; the end of a string is "".
tolower(ch) ==
    LET upper == "ABCDEFGHIJKLMNOPQRSTUVWXYZ"
        lower == "abcdefghijklmnopqrstuvwxyz"
        at == {i \in 1..Len(upper) : SubSeq(upper, i, i) = ch}
    IN  IF at = {} THEN ch ELSE SubSeq(lower, CHOOSE i \in at : TRUE, CHOOSE i \in at : TRUE)

\* The character i of a string, "" from its end on.
CharAt(s, i) == IF i <= Len(s) THEN SubSeq(s, i, i) ELSE ""

\* strncasecmp(s1, s2, n) from the character i on: 0, or 1 for every other
\* value (the callers compare the result with 0 only).
RECURSIVE strncasecmp_from(_, _, _, _)
strncasecmp_from(s1, s2, n, i) ==
    IF i > n THEN 0
    ELSE IF tolower(CharAt(s1, i)) # tolower(CharAt(s2, i)) THEN 1
    ELSE IF CharAt(s1, i) = "" THEN 0
    ELSE strncasecmp_from(s1, s2, n, i + 1)

\* A variant that compares the characters as they are.
strncasecmp_exact(s1, s2, n) ==
    IF SubSeq(s1, 1, Min(n, Len(s1))) = SubSeq(s2, 1, Min(n, Len(s2))) THEN 0 ELSE 1

strncasecmp(s1, s2, n) == strncasecmp_from(s1, s2, n, 1)

\* SQLite fails on the statement "fail" and on no other.
SqliteError(sql) == sql = "fail"

\* sbk_exec_statement after sbk_sqlite_prepare: the parameters are bound and
\* the statement is stepped.
StatementPrepared(c, frm) ==
    IF SqliteError(frm.sql)
    THEN [ret |-> 0 - 1, ctx |-> SetError(c, "Cannot execute SQL statement")]
    ELSE [ret |-> 0, ctx |-> [c EXCEPT !.db.binds = Append(@, frm.params),
                                       !.db.rows = Append(@, frm.sql)]]

\* sbk_exec_statement: a statement that would create a table with a reserved
\* name is left out; any other is prepared, bound and stepped.
sbk_exec_statement(c, frm) ==
    IF ~frm.has_sql
    THEN [ret |-> 0 - 1, ctx |-> SetError(c, "Invalid SQL frame")]
    ELSE IF strncasecmp(frm.sql, "create table sqlite_", 20) = 0
    THEN [ret |-> 0, ctx |-> c]
    ELSE StatementPrepared([c EXCEPT !.db.prepared = Append(@, frm.sql)], frm)

sbk_set_database_version(c, frm) ==
    IF ~frm.has_version
    THEN [ret |-> 0 - 1, ctx |-> SetError(c, "Invalid version frame")]
    ELSE [ret |-> 0, ctx |-> [c EXCEPT !.db_version = frm.version,
                                       !.db.user_version = frm.version]]

\* RB_INSERT keeps the entry already stored under an equal key.
sbk_insert_attachment_entry(c, frm, f) ==
    IF ~frm.has_ids
    THEN [ret |-> 0 - 1, ctx |-> SetError(c, "Invalid attachment frame")]
    ELSE [ret |-> 0,
          ctx |-> IF \E e \in c.attachments :
                         e.rowid = frm.rowid /\ e.attachmentid = frm.attachmentid
                  THEN c
                  ELSE [c EXCEPT !.attachments = @ \cup
                           {[rowid |-> frm.rowid,
                             attachmentid |-> frm.attachmentid, file |-> f]}]]

\* The body of the while loop of sbk_create_database for one frame.
Dispatch(c, frm, f) ==
    IF frm.kind = "version" THEN sbk_set_database_version(c, frm)
    ELSE IF frm.kind = "statement" THEN sbk_exec_statement(c, frm)
    ELSE IF frm.kind = "attachment" THEN sbk_insert_attachment_entry(c, frm, f)
    ELSE [ret |-> 0, ctx |-> c]

\* An entry of the record of a pass: the frame returned, whether it was an
\* encrypted one, the file position its record starts at, the counter the
\* call started with, and the FileRef returned with it.
PassEntry(c, g) ==
    [frm |-> g.frm, enc |-> ~c.firstframe, at |-> c.pos, counter |-> c.counter,
     file |-> g.file]

\* The while loop of sbk_create_database; log: the frames it got so far.
RECURSIVE ReplayLoop(_, _)
RECURSIVE ReplayFrame(_, _, _)
RECURSIVE ReplayDispatched(_, _)

\* The loop after the dispatch of a frame (d).
ReplayDispatched(d, log) ==
    IF d.ret = 0 - 1 THEN [ret |-> 0 - 1, ctx |-> d.ctx, log |-> log]
    ELSE ReplayLoop(d.ctx, log)

\* The loop after its call of sbk_get_frame (g) on context c.
ReplayFrame(c, g, log) ==
    IF g.frm = NoFrame THEN [ret |-> 0, ctx |-> g.ctx, log |-> log]
    ELSE ReplayDispatched(Dispatch(g.ctx, g.frm, g.file),
                          Append(log, PassEntry(c, g)))

ReplayLoop(c, log) == ReplayFrame(c, sbk_get_frame(c, TRUE), log)

\* A variant that leaves the entries in the tree.
sbk_free_attachment_tree_leaves(c) == c

\* sbk_free_attachment_tree: every entry is removed and freed with its file.
sbk_free_attachment_tree(c) == [c EXCEPT !.attachments = {}]

\* A variant that leaves the database and the index as they are.
CreateDatabaseError_keeps(c) == c

\* The error exit of sbk_create_database.
CreateDatabaseError(c) ==
    [sbk_free_attachment_tree(c) EXCEPT !.db = NoDb]

\* A variant that does not ask whether the End frame was seen.
ReplayDone_no_eof_check(lp) ==
    IF lp.ret = 0 - 1
    THEN [ret |-> 0 - 1, ctx |-> CreateDatabaseError(lp.ctx), log |-> lp.log,
          rewound |-> TRUE, failed |-> FALSE]
    ELSE [ret |-> 0, ctx |-> lp.ctx, log |-> lp.log, rewound |-> TRUE,
          failed |-> ~lp.ctx.eof]

\* sbk_create_database after its loop (lp): the error exit is taken when a
\* frame failed or no frame with the end field was seen.  rewound: the call
\* went through sbk_rewind; failed: the loop ended with a call of
\* sbk_get_frame that failed.
ReplayDone(lp) ==
    IF lp.ret = 0 - 1 \/ ~lp.ctx.eof
    THEN [ret |-> 0 - 1, ctx |-> CreateDatabaseError(lp.ctx), log |-> lp.log,
          rewound |-> TRUE, failed |-> lp.ret = 0]
    ELSE [ret |-> 0, ctx |-> lp.ctx, log |-> lp.log, rewound |-> TRUE,
          failed |-> FALSE]

\* sbk_create_database from sqlite3_open on: the database is opened, the
\* backup rewound and replayed.
CreateDatabaseReplay(c) ==
    ReplayDone(
        ReplayLoop(sbk_rewind([c EXCEPT !.db = [NoDb EXCEPT !.open = TRUE]]),
                   <<>>))

\* A variant that replays the backup on every call.
sbk_create_database_replays(c) == CreateDatabaseReplay(c)

\* sbk_create_database: nothing to do when the database exists.
sbk_create_database(c) ==
    IF c.db # NoDb
    THEN [ret |-> 0, ctx |-> c, log |-> <<>>, rewound |-> FALSE,
          failed |-> FALSE]
    ELSE CreateDatabaseReplay(c)

(***************************************************************************)
(* Opening and closing.                                                    *)
(***************************************************************************)
\* A variant that closes the file and leaves the keys.
OpenError_keeps_keys(c) == [c EXCEPT !.fpopen = FALSE]

\* The error exit of sbk_open.
OpenError(c) ==
    [c EXCEPT !.cipherkey = ZeroKey, !.mackey = ZeroKey, !.fpopen = FALSE]

\* A variant that reads the four bytes in the opposite order.
CounterFromIv_little_endian(iv) == U32FromBytes(iv[4], iv[3], iv[2], iv[1])

\* (iv[0] << 24) | (iv[1] << 16) | (iv[2] << 8) | iv[3]
CounterFromIv(iv) == U32FromBytes(iv[1], iv[2], iv[3], iv[4])

\* sbk_open after its call of sbk_get_frame (g).
OpenHeader(g, passphr) ==
    LET iv == g.frm.iv
        salt == IF g.frm.has_salt THEN g.frm.salt ELSE <<>>
    IN  IF g.frm = NoFrame THEN [ret |-> 0 - 1, ctx |-> OpenError(g.ctx)]
        ELSE IF g.frm.kind # "header"
        THEN [ret |-> 0 - 1,
              ctx |-> OpenError(SetError(g.ctx, "Missing header frame"))]
        ELSE IF ~g.frm.has_iv
        THEN [ret |-> 0 - 1, ctx |-> OpenError(SetError(g.ctx, "Missing IV"))]
        ELSE IF Len(iv) # SBK_IV_LEN
        THEN [ret |-> 0 - 1, ctx |-> OpenError(SetError(g.ctx, "Invalid IV size"))]
        ELSE [ret |-> 0,
              ctx |-> [sbk_rewind([g.ctx EXCEPT
                                      !.iv = iv,
                                      !.counter = CounterFromIv(iv),
                                      !.cipherkey = CipherKeyOf(passphr, salt),
                                      !.mackey = MacKeyOf(passphr, salt)])
                       EXCEPT !.db = NoDb, !.db_version = 0,
                              !.attachments = {}]]

\* sbk_open, after fopen has succeeded.
sbk_open(c, passphr) ==
    OpenHeader(sbk_get_frame([c EXCEPT !.fpopen = TRUE, !.pos = 0,
                                       !.firstframe = TRUE, !.eof = FALSE],
                             FALSE),
               passphr)

sbk_close(c) ==
    [sbk_free_attachment_tree(c) EXCEPT !.cipherkey = ZeroKey,
                                        !.mackey = ZeroKey,
                                        !.db = NoDb, !.fpopen = FALSE]

(***************************************************************************)
(* The calls of the API, each one a step.                                  *)
(***************************************************************************)
\* The record of a pass: its number (1 after sbk_open, 2 after a rewind), the
\* frames sbk_get_frame returned in it before any call of it failed, whether a
\* call of it failed, and whether an extraction has moved the file position
\* in it.
NoPass == [no |-> 0, frames |-> <<>>, failed |-> FALSE, moved |-> FALSE]

\* The pass that a rewind starts.
NextPass == [NoPass EXCEPT !.no = 2]

\* The record of the last call: its name and result, the frame, FileRef and
\* bytes it gave, whether the FileRef was extracted before, and for a call of
\* sbk_create_database how the call before it ended if it was one too.
NoLast ==
    [op |-> "none", ret |-> 0, frm |-> NoFrame, file |-> NoFile, out |-> <<>>,
     again |-> FALSE, prior |-> "none"]

\* The counter the header IV starts the backup with.
InitialCounter == U32FromBytes(file[6], file[7], file[8], file[9])

\* sbk_ctx_new: no file, no database, no error; the other fields get their
\* values in sbk_open before they are read.
NewCtx ==
    [fpopen |-> FALSE, pos |-> 0, db |-> NoDb, db_version |-> 0,
     attachments |-> {}, cipherkey |-> Byte - 1, mackey |-> Byte - 1,
     iv |-> [i \in 1..SBK_IV_LEN |-> 0], counter |-> <<0, 0>>,
     firstframe |-> FALSE, eof |-> FALSE, error |-> ""]

Init ==
    /\ backup \in Backups
    /\ file = BackupBytes(backup)
    /\ state = "new"
    /\ ctx = NewCtx
    /\ held = <<>>
    /\ last = NoLast
    /\ pass = NoPass
    /\ extracted = {}
    /\ input = NoInput
    /\ output = NoOutput

\* What a call leaves, given what the function returned (r).
OpenReturns(r) ==
    /\ ctx' = r.ctx
    /\ state' = IF r.ret = 0 THEN "open" ELSE "failed"
    /\ last' = [NoLast EXCEPT !.op = "open", !.ret = r.ret]
    /\ pass' = [NoPass EXCEPT !.no = 1]

Open ==
    /\ state = "new"
    /\ OpenReturns(sbk_open(ctx, Passphrase))
    /\ UNCHANGED <<backup, file, held, extracted, input, output>>

GetFrameReturns(g) ==
    /\ ctx' = g.ctx
    /\ held' = IF g.file # NoFile /\ Len(held) < MaxHeld
               THEN Append(held, g.file) ELSE held
    /\ last' = [NoLast EXCEPT !.op = "get_frame", !.frm = g.frm,
                              !.file = g.file,
                              !.ret = IF g.frm = NoFrame THEN 0 - 1 ELSE 0]
    /\ pass' = IF pass.failed \/ ctx.eof THEN pass
               ELSE IF g.frm # NoFrame
               THEN [pass EXCEPT !.frames = Append(@, PassEntry(ctx, g))]
               ELSE [pass EXCEPT !.failed = TRUE]

GetFrame(wantfile) ==
    /\ state = "open"
    /\ GetFrameReturns(sbk_get_frame(ctx, wantfile))
    /\ UNCHANGED <<backup, file, state, extracted, input, output>>

Rewind ==
    /\ state = "open"
    /\ ctx' = sbk_rewind(ctx)
    /\ last' = [NoLast EXCEPT !.op = "rewind"]
    /\ pass' = NextPass
    /\ UNCHANGED <<backup, file, state, held, extracted, input, output>>

CreateDatabaseReturns(r) ==
    /\ ctx' = r.ctx
    /\ last' = [NoLast EXCEPT !.op = "create_database",
                              !.ret = r.ret,
                              !.prior = IF last.op # "create_database"
                                        THEN "none"
                                        ELSE IF last.ret = 0 THEN "ok"
                                        ELSE "failed"]
    /\ pass' = IF r.rewound
               THEN [NextPass EXCEPT !.frames = r.log, !.failed = r.failed]
               ELSE pass

CreateDatabase ==
    /\ state = "open"
    /\ CreateDatabaseReturns(sbk_create_database(ctx))
    /\ UNCHANGED <<backup, file, state, held, extracted, input, output>>

\* The FileRefs a caller can extract: the ones it holds and the ones of the
\* attachment index.
IndexedFiles == {e.file : e \in ctx.attachments}

\* The attachment index with the struct sbk_file f as a call left it (g).
IndexWith(index, f, g) ==
    {IF e.file = f THEN [e EXCEPT !.file = g] ELSE e : e \in index}

WriteFileReturns(f, r) ==
    /\ last' = [NoLast EXCEPT !.op = "write_file", !.ret = r.ret,
                              !.file = f, !.out = r.out,
                              !.again = \E x \in extracted : x.file = f]
    /\ extracted' = extracted \cup {[file |-> f, ret |-> r.ret, out |-> r.out]}
    /\ pass' = [pass EXCEPT !.moved = TRUE]

HeldWritten(i, r) ==
    /\ ctx' = r.ctx
    /\ held' = [held EXCEPT ![i] = r.file]
    /\ WriteFileReturns(held[i], r)

WriteHeld(i) ==
    /\ state = "open"
    /\ i \in DOMAIN held
    /\ HeldWritten(i, sbk_write_file(ctx, held[i]))
    /\ UNCHANGED <<backup, file, state, input, output>>

IndexedWritten(f, r) ==
    /\ ctx' = [r.ctx EXCEPT !.attachments = IndexWith(@, f, r.file)]
    /\ WriteFileReturns(f, r)

WriteIndexed(f) ==
    /\ state = "open"
    /\ f \in IndexedFiles
    /\ IndexedWritten(f, sbk_write_file(ctx, f))
    /\ UNCHANGED <<backup, file, state, held, input, output>>

GetFileAsStringReturns(f, r) ==
    /\ ctx' = [r.ctx EXCEPT !.attachments = IndexWith(@, f, r.file)]
    /\ last' = [NoLast EXCEPT !.op = "get_file_as_string", !.ret = r.ret,
                              !.file = f, !.out = r.out]
    /\ pass' = [pass EXCEPT !.moved = TRUE]

GetFileAsString(f) ==
    /\ state = "open"
    /\ f \in IndexedFiles
    /\ GetFileAsStringReturns(f, sbk_get_file_as_string(ctx, f))
    /\ UNCHANGED <<backup, file, state, held, extracted, input, output>>

Close ==
    /\ state = "open"
    /\ ctx' = sbk_close(ctx)
    /\ state' = "closed"
    /\ last' = [NoLast EXCEPT !.op = "close"]
    /\ UNCHANGED <<backup, file, held, pass, extracted, input, output>>

Next ==
    \/ Open
    \/ \E wantfile \in BOOLEAN : GetFrame(wantfile)
    \/ Rewind
    \/ CreateDatabase
    \/ \E i \in 1..MaxHeld : WriteHeld(i)
    \/ \E f \in IndexedFiles : WriteIndexed(f)
    \/ \E f \in IndexedFiles : GetFileAsString(f)
    \/ Close

Spec == Init /\ [][Next]_vars

(***************************************************************************)
(* What the claims are stated with.                                        *)
(***************************************************************************)
\* The context as sbk_open leaves it on this backup.
OpenedCtx == sbk_open(NewCtx, Passphrase).ctx

\* The frames that the first n calls of sbk_get_frame return on context c, up
\* to the first call that returns none.
RECURSIVE FramesOfPass(_, _)
FramesOfPass(c, n) ==
    LET g == sbk_get_frame(c, FALSE)
    IN  IF n = 0 \/ g.frm = NoFrame THEN <<>>
        ELSE <<g.frm>> \o FramesOfPass(g.ctx, n - 1)

\* N: the encrypted frames the pass has returned so far.
PassN == Cardinality({i \in DOMAIN pass.frames : pass.frames[i].enc})

\* M: the file payloads the pass has skipped so far, one for every returned
\* frame that announces a file.
PassM ==
    Cardinality({i \in DOMAIN pass.frames :
                     pass.frames[i].enc /\ sbk_has_file_data(pass.frames[i].frm)})

(***************************************************************************)
(* C1.  At every point of a frame pass on an open context the counter is   *)
(* the initial counter (the one of the header IV) plus the number N of     *)
(* encrypted frames returned so far in the pass plus the number M of file  *)
(* payloads skipped so far in it.  Stated for the passes in which no call  *)
(* has failed.                                                             *)
(***************************************************************************)
C1_CounterIsInitialPlusNPlusM ==
    (state = "open" /\ ~pass.failed) =>
        ctx.counter = U32Add(InitialCounter, PassN + PassM)

(***************************************************************************)
(* C2.  After sbk_rewind, the calls of sbk_get_frame return the frames of  *)
(* the first pass again, each one authenticated and decoded: the frames a  *)
(* pass after a rewind has returned are the frames that a pass on the      *)
(* backup as sbk_open left it returns in the same number of calls, and a   *)
(* call of the pass fails only where that pass has no frame either.        *)
(* Stated for passes in which no extraction has moved the file position.   *)
(***************************************************************************)
C2_RewindRepeatsThePass ==
    (state = "open" /\ pass.no = 2 /\ ~pass.moved) =>
        LET n == Len(pass.frames)
            first == FramesOfPass(OpenedCtx, n + 1)
        IN  /\ Len(first) >= n
            /\ \A i \in 1..Min(n, Len(first)) : pass.frames[i].frm = first[i]
            /\ pass.failed => Len(first) = n

(***************************************************************************)
(* The records of the file, as the claims about authentication see them.   *)
(***************************************************************************)
\* The file position at which the record of frame k of the backup starts.
RecordPos(k) ==
    Len(BackupBytes([backup EXCEPT !.plain = SubSeq(@, 1, k - 1)]))

\* The length field of the record at pos, when the file holds all of it.
RecordLen(pos) ==
    IF pos + SBK_LEN_LEN > Len(file) THEN 0 - 1
    ELSE Int32FromBytes(SubSeq(file, pos + 1, pos + SBK_LEN_LEN))

RecordComplete(pos) ==
    /\ RecordLen(pos) > SBK_MAC_LEN
    /\ pos + SBK_LEN_LEN + RecordLen(pos) <= Len(file)

\* The first SBK_MAC_LEN bytes of the HMAC over the ciphertext of the record at
\* pos, under the MAC key of the backup, are the trailing bytes of the record.
RecordAuthentic(pos) ==
    LET body == SubSeq(file, pos + SBK_LEN_LEN + 1,
                       pos + SBK_LEN_LEN + RecordLen(pos))
        n == Len(body) - SBK_MAC_LEN
        digest == HmacFinal(HmacUpdate(HmacInit(MacKeyOf(Passphrase, Salt)),
                                       SubSeq(body, 1, n)))
    IN  /\ RecordComplete(pos)
        /\ \A j \in 1..SBK_MAC_LEN : digest[j] = body[n + j]

\* The text begins with "create table sqlite_" in upper or lower case.
ReservedTable(sql) ==
    /\ Len(sql) >= 20
    /\ SubSeq(sql, 1, 13) \in {"create table ", "CREATE TABLE "}
    /\ SubSeq(sql, 14, 20) = "sqlite_"

\* The SQL statements of the frames of a replay that reach SQLite, in order.
RECURSIVE StatementsOf(_)
StatementsOf(log) ==
    IF log = <<>> THEN <<>>
    ELSE IF Head(log).frm.kind = "statement" /\ ~ReservedTable(Head(log).frm.sql)
    THEN <<Head(log).frm.sql>> \o StatementsOf(Tail(log))
    ELSE StatementsOf(Tail(log))

(***************************************************************************)
(* The steps the claims speak of.  A step is named by the record of the    *)
(* call it leaves in last; what held before the call is the unprimed       *)
(* state, what holds after it the primed one.                              *)
(***************************************************************************)
\* A call of sbk_get_frame.
GetFrameStep == last'.op = "get_frame"

\* A call of sbk_get_frame that has an encrypted record to read.
ReadEncryptedStep ==
    /\ GetFrameStep
    /\ ~ctx.firstframe
    /\ ~ctx.eof
    /\ RecordComplete(ctx.pos)

\* A call of sbk_create_database that goes through the replay.
ReplayStep == last'.op = "create_database" /\ ctx.db = NoDb

\* A call of sbk_write_file or sbk_get_file_as_string.
ExtractStep == last'.op \in {"write_file", "get_file_as_string"}

(***************************************************************************)
(* C3.  As claimed: sbk_open of a backup in which one ciphertext byte of a *)
(* frame after the header is corrupted returns -1 with the error "HMAC     *)
(* mismatch", the file closed, the keys zeroed and no database.            *)
(***************************************************************************)
C3_OpenFailsOnCorruptFrame ==
    (backup.badf > 0 /\ last.op = "open") =>
        /\ last.ret = 0 - 1
        /\ ctx.error = "HMAC mismatch"
        /\ ~ctx.fpopen
        /\ ctx.cipherkey = ZeroKey /\ ctx.mackey = ZeroKey
        /\ ctx.db = NoDb

(***************************************************************************)
(* C3, amended.  sbk_open of such a backup reads the header only and       *)
(* succeeds.  The corruption is found by the call that reads the record:   *)
(* sbk_get_frame returns no frame, reports "HMAC mismatch" and leaves the  *)
(* counter; a replay that stops at the record makes sbk_create_database    *)
(* return -1 with no database and an empty attachment index.               *)
(***************************************************************************)
C3_CorruptFrameFoundWhenRead ==
    [][
        backup.badf > 0 =>
            /\ last'.op = "open" =>
                   /\ last'.ret = 0 /\ state' = "open"
                   /\ ctx'.fpopen /\ ctx'.error = "" /\ ctx'.pos = 0
                   /\ ctx'.db = NoDb
            /\ (ReadEncryptedStep /\ ctx.pos = RecordPos(backup.badf)) =>
                   /\ last'.frm = NoFrame
                   /\ ctx'.error = "HMAC mismatch"
                   /\ ctx'.counter = ctx.counter
            /\ (ReplayStep /\ ctx'.error = "HMAC mismatch"
                    /\ ctx'.pos = RecordPos(backup.badf + 1)) =>
                   /\ last'.ret = 0 - 1
                   /\ ctx'.db = NoDb
                   /\ ctx'.attachments = {}
    ]_vars

\* A corrupted backup was opened and a later call of sbk_get_frame, in the pass
\* that follows sbk_open, stopped at the corrupted record.
C3_Witness ==
    /\ backup.badf > 0
    /\ state = "open" /\ pass.no = 1 /\ ~pass.moved
    /\ last.op = "get_frame" /\ last.frm = NoFrame
    /\ ctx.pos = RecordPos(backup.badf + 1)
    /\ ctx.error = "HMAC mismatch"

(***************************************************************************)
(* C4.  sbk_get_frame returns an encrypted frame only if the first 10      *)
(* bytes of the HMAC over the ciphertext of its record equal the 10        *)
(* trailing bytes of the record.  On a mismatch it returns no frame, leaves *)
(* the counter and reports "HMAC mismatch".  Every frame a replay got was  *)
(* authenticated in this way, and the rows of a database it built are the  *)
(* statements of those frames.                                             *)
(***************************************************************************)
C4_EncryptedFrameIsAuthenticated ==
    [][
        /\ (GetFrameStep /\ ~ctx.firstframe /\ last'.frm # NoFrame) =>
               RecordAuthentic(ctx.pos)
        /\ (ReadEncryptedStep /\ ~RecordAuthentic(ctx.pos)) =>
               /\ last'.frm = NoFrame
               /\ last'.file = NoFile
               /\ ctx'.counter = ctx.counter
               /\ ctx'.error = "HMAC mismatch"
        /\ ReplayStep =>
               /\ \A i \in DOMAIN pass'.frames :
                      pass'.frames[i].enc => RecordAuthentic(pass'.frames[i].at)
               /\ ctx'.db # NoDb => ctx'.db.rows = StatementsOf(pass'.frames)
    ]_vars

\* A replay got authenticated frames and then stopped at the record whose MAC
\* does not match.
C4_Witness ==
    /\ backup.badf > 0
    /\ last.op = "create_database" /\ last.ret = 0 - 1
    /\ ctx.error = "HMAC mismatch"
    /\ ctx.pos = RecordPos(backup.badf + 1)
    /\ ~RecordAuthentic(RecordPos(backup.badf))
    /\ \E i \in DOMAIN pass.frames : pass.frames[i].enc

(***************************************************************************)
(* C5.  A call of sbk_create_database that follows another one gives what  *)
(* the first gave: the same return value, database, db_version and         *)
(* attachment index; after a successful first call it leaves the counter,   *)
(* the file position, the end-of-backup and first-frame flags and the       *)
(* record of the pass as they were.                                         *)
(***************************************************************************)
C5_CreateDatabaseTwiceIsOnce ==
    [][
        (last.op = "create_database" /\ last'.op = "create_database") =>
            /\ last'.ret = last.ret
            /\ ctx'.db = ctx.db
            /\ ctx'.db_version = ctx.db_version
            /\ ctx'.attachments = ctx.attachments
            /\ last.ret = 0 =>
                   /\ ctx'.db # NoDb
                   /\ ctx'.counter = ctx.counter
                   /\ ctx'.pos = ctx.pos
                   /\ ctx'.eof = ctx.eof
                   /\ ctx'.firstframe = ctx.firstframe
                   /\ pass' = pass
    ]_vars

\* A second call after a successful one, on a database with an attachment
\* index.
C5_Witness ==
    /\ last.op = "create_database" /\ last.prior = "ok"
    /\ last.ret = 0
    /\ ctx.db # NoDb
    /\ ctx.attachments # {}

(***************************************************************************)
(* C6.  Two extractions of the same FileRef with sbk_write_file give the    *)
(* same result and the same bytes, whatever was called in between: result   *)
(* and bytes are those of decrypting the len bytes at pos under the cipher  *)
(* key with the IV made of the FileRef's counter and bytes 4..15 of the     *)
(* header IV, and of comparing the MAC that follows them.                   *)
(***************************************************************************)
ExtractionOf(f) ==
    LET iv == U32ToBytes(f.counter) \o SubSeq(backup.iv, 5, SBK_IV_LEN)
        len == IF f.len[1] > 0 THEN Len(file) + 1 ELSE f.len[2]
        ct == SubSeq(file, f.pos + 1, f.pos + len)
        mac == SubSeq(file, f.pos + len + 1, f.pos + len + SBK_MAC_LEN)
        digest == HmacFinal(HmacUpdate(HmacUpdate(
                      HmacInit(MacKeyOf(Passphrase, Salt)), iv), ct))
    IN  [out |-> IF f.pos + len <= Len(file)
                 THEN AesCtrDecrypt(CipherKeyOf(Passphrase, Salt), iv, 0, ct)
                 ELSE <<>>,
         ret |-> IF f.pos + len + SBK_MAC_LEN <= Len(file) /\ digest = mac
                 THEN 0 ELSE 0 - 1]

C6_ExtractionIsRepeatable ==
    /\ \A x, y \in extracted :
           x.file = y.file => x.ret = y.ret /\ x.out = y.out
    /\ \A x \in extracted :
           x.ret = ExtractionOf(x.file).ret /\ x.out = ExtractionOf(x.file).out

\* A FileRef is extracted for the second time, with success, after the
\* backup was rewound and the counter has moved on.
C6_Witness ==
    /\ last.op = "write_file" /\ last.again
    /\ last.ret = 0 /\ last.out = PayloadPlain
    /\ pass.no = 2
    /\ ctx.counter # last.file.counter

(***************************************************************************)
(* C7.  The counter of a FileRef is the counter of the context when its    *)
(* frame was parsed, one more than the counter the frame was decrypted     *)
(* with.  A FileRef the caller holds and the FileRefs of the attachment     *)
(* index are not changed by later calls, and sbk_write_file and             *)
(* sbk_get_file_as_string set the first four bytes of the IV from the       *)
(* stored counter, not from the counter of the context.                     *)
(***************************************************************************)
C7_FileRefKeepsItsCounter ==
    [][
        /\ (GetFrameStep /\ last'.file # NoFile) =>
               /\ last'.file.counter = U32Plus(ctx.counter, 1)
               /\ last'.file.len = last'.frm.length
               /\ last'.file.pos = ctx.pos + SBK_LEN_LEN + RecordLen(ctx.pos)
        /\ ReplayStep =>
               /\ \A i \in DOMAIN pass'.frames :
                      pass'.frames[i].file # NoFile =>
                          pass'.frames[i].file.counter =
                              U32Plus(pass'.frames[i].counter, 1)
               /\ \A e \in ctx'.attachments :
                      \E i \in DOMAIN pass'.frames : pass'.frames[i].file = e.file
        /\ \A i \in DOMAIN held : held'[i] = held[i]
        /\ (GetFrameStep \/ ExtractStep \/ last'.op = "rewind") =>
               ctx'.attachments = ctx.attachments
        /\ ExtractStep =>
               /\ SubSeq(ctx'.iv, 1, 4) = U32ToBytes(last'.file.counter)
               /\ SubSeq(ctx'.iv, 5, SBK_IV_LEN) = SubSeq(backup.iv, 5, SBK_IV_LEN)
               /\ ctx'.counter = ctx.counter
    ]_vars

\* A FileRef of the attachment index is extracted as a string after the
\* counter has moved on from the value the FileRef holds.
C7_Witness ==
    /\ last.op = "get_file_as_string"
    /\ last.ret = 0 /\ last.out = PayloadPlain
    /\ last.file.counter = U32Plus(InitialCounter, 1)
    /\ ctx.counter # last.file.counter
    /\ SubSeq(ctx.iv, 1, 4) = U32ToBytes(last.file.counter)

(***************************************************************************)
(* C8.  As claimed: for every initial counter, the counter after a call of *)
(* sbk_get_frame is never smaller than before the call.                     *)
(***************************************************************************)
C8_CounterNeverDecreases ==
    [][GetFrameStep => ~U32Less(ctx'.counter, ctx.counter)]_vars

(***************************************************************************)
(* C8, amended.  A call of sbk_get_frame adds to the counter, modulo 2^32: *)
(* nothing when it reads the header frame or is called at the end, 1 for a *)
(* frame without file, 2 for a frame with a file, and 0 or 1 when it       *)
(* returns no frame.  The counter after the call is not smaller than       *)
(* before unless the addition passed 2^32 - 1.                              *)
(***************************************************************************)
C8_CounterAdvancesModulo ==
    [][
        GetFrameStep =>
            /\ (ctx.firstframe \/ ctx.eof) => ctx'.counter = ctx.counter
            /\ (~ctx.firstframe /\ last'.frm # NoFrame) =>
                   ctx'.counter =
                       U32Plus(ctx.counter,
                               IF sbk_has_file_data(last'.frm) THEN 2 ELSE 1)
            /\ last'.frm = NoFrame =>
                   ctx'.counter \in {ctx.counter, U32Plus(ctx.counter, 1)}
            /\ (ctx.counter[1] < Half - 1 \/ ctx.counter[2] < Half - 2) =>
                   ~U32Less(ctx'.counter, ctx.counter)
    ]_vars

\* On the backup whose header IV starts with FF FF FF FE a frame was returned
\* and the counter is 0.
C8_Witness ==
    /\ InitialCounter = <<Half - 1, Half - 2>>
    /\ last.op = "get_frame" /\ last.frm # NoFrame
    /\ ctx.counter = <<0, 0>>

(***************************************************************************)
(* C9.  After a successful sbk_open the counter is the big-endian value of *)
(* the first four bytes of the header IV: its high 16 bits are iv[0] * 256 *)
(* + iv[1], its low 16 bits iv[2] * 256 + iv[3], so that 00 01 02 03 gives *)
(* 0x00010203.  A call of sbk_get_frame that reads the header frame, after *)
(* sbk_open or after a rewind, leaves the counter.                          *)
(***************************************************************************)
C9_CounterFromHeaderIv ==
    [][
        /\ (last'.op = "open" /\ last'.ret = 0) =>
               /\ ctx'.counter[1] = backup.iv[1] * 256 + backup.iv[2]
               /\ ctx'.counter[2] = backup.iv[3] * 256 + backup.iv[4]
               /\ SubSeq(backup.iv, 1, 4) = <<0, 1, 2, 3>> =>
                      ctx'.counter[1] * 65536 + ctx'.counter[2] = 66051
               /\ ctx'.iv = backup.iv
        /\ (GetFrameStep /\ ctx.firstframe) => ctx'.counter = ctx.counter
    ]_vars

\* The header frame is read after a rewind, the counter being past its first
\* value, on the backup whose IV starts with 00 01 02 03.
C9_Witness ==
    /\ SubSeq(backup.iv, 1, 4) = <<0, 1, 2, 3>>
    /\ last.op = "get_frame" /\ last.frm.kind = "header"
    /\ pass.no = 2 /\ Len(pass.frames) = 1
    /\ ctx.counter[1] * 65536 + ctx.counter[2] > 66051

MaxParts == 2

SBK_ATTACHMENT_TRANSFER_DONE == 0

\* The list a failed query returns (NULL), with the error left in the context.
QueryError(msg) == [ok |-> FALSE, lst |-> <<>>, error |-> msg]

\* sbk_get_attachment_file: RB_FIND under the key (rowid, attachmentid).
sbk_get_attachment_file(index, rowid, attachmentid) ==
    IF \E e \in index : e.rowid = rowid /\ e.attachmentid = attachmentid
    THEN (CHOOSE e \in index :
              e.rowid = rowid /\ e.attachmentid = attachmentid).file
    ELSE NoFile

\* A variant that does not compare the sizes.
sbk_get_attachment_unsized(index, row) ==
    LET f == sbk_get_attachment_file(index, row._id, row.unique_id)
        att == [content_type |-> row.ct, rowid |-> row._id,
                attachmentid |-> row.unique_id, status |-> row.pending_push,
                size |-> row.data_size, file |-> NoFile]
    IN  IF att.status # SBK_ATTACHMENT_TRANSFER_DONE
        THEN [ok |-> TRUE, att |-> att, error |-> ""]
        ELSE IF f = NoFile
        THEN [ok |-> FALSE, att |-> att, error |-> "Cannot find attachment file"]
        ELSE [ok |-> TRUE, att |-> [att EXCEPT !.file = f], error |-> ""]

\* sbk_get_attachment: the struct sbk_attachment of a row of the part table.
sbk_get_attachment(index, row) ==
    LET f == sbk_get_attachment_file(index, row._id, row.unique_id)
        att == [content_type |-> row.ct, rowid |-> row._id,
                attachmentid |-> row.unique_id, status |-> row.pending_push,
                size |-> row.data_size, file |-> NoFile]
    IN  IF att.status # SBK_ATTACHMENT_TRANSFER_DONE
        THEN [ok |-> TRUE, att |-> att, error |-> ""]
        ELSE IF f = NoFile
        THEN [ok |-> FALSE, att |-> att, error |-> "Cannot find attachment file"]
        ELSE IF att.size # U32Value(f.len)
        THEN [ok |-> FALSE, att |-> att, error |-> "Inconsistent attachment size"]
        ELSE [ok |-> TRUE, att |-> [att EXCEPT !.file = f], error |-> ""]

\* sbk_get_attachments: the loop over the rows of the statement; the first
\* row that fails frees the list.
RECURSIVE sbk_get_attachments(_, _, _)
sbk_get_attachments(index, rows, lst) ==
    IF rows = <<>> THEN [ok |-> TRUE, lst |-> lst, error |-> ""]
    ELSE LET a == sbk_get_attachment(index, Head(rows))
         IN  IF ~a.ok THEN QueryError(a.error)
             ELSE sbk_get_attachments(index, Tail(rows), Append(lst, a.att))

\* ORDER BY unique_id, _id
RECURSIVE SBK_ATTACHMENTS_ORDER(_)
SBK_ATTACHMENTS_ORDER(rows) ==
    IF rows = {} THEN <<>>
    ELSE LET m == CHOOSE r \in rows : \A q \in rows :
                      \/ r.unique_id < q.unique_id
                      \/ (r.unique_id = q.unique_id /\ r._id <= q._id)
         IN  <<m>> \o SBK_ATTACHMENTS_ORDER(rows \ {m})

\* The rows of the part table that a query selects: all of them, the ones of
\* the messages of a thread, or the ones of a message.
SBK_ATTACHMENTS_SELECT(db, query) ==
    IF query.by = "all" THEN db.part
    ELSE IF query.by = "thread"
    THEN {r \in db.part :
              \E m \in db.mms : m._id = r.mid /\ m.thread_id = query.id}
    ELSE {r \in db.part : r.mid = query.id}

\* sbk_get_all_attachments, sbk_get_attachments_for_thread and
\* sbk_get_attachments_for_message, as the query tells.
sbk_get_attachments_query(db, index, query) ==
    sbk_get_attachments(index,
                        SBK_ATTACHMENTS_ORDER(SBK_ATTACHMENTS_SELECT(db, query)),
                        <<>>)

\* The databases and attachment indexes of the model: every row of the part
\* table is absent or present with either status, size and attachment id; the
\* part with _id i belongs to the message i, and the message i to the thread
\* (i + 1) \div 2.
PartRows(i) ==
    {[ct |-> <<"image/png">>, _id |-> i, unique_id |-> u, pending_push |-> p,
      data_size |-> PayloadLen + d, mid |-> i] : u \in 1..2, p \in 0..1, d \in 0..1}

RECURSIVE Tables(_, _)
Tables(Rows(_), n) ==
    IF n = 0 THEN {{}}
    ELSE {t \cup r : t \in Tables(Rows, n - 1),
                     r \in {{}} \cup {{x} : x \in Rows(n)}}

IndexEntries(i) ==
    {[rowid |-> i, attachmentid |-> u,
      file |-> [pos |-> 100 * i, len |-> <<0, PayloadLen>>,
               counter |-> <<0, i>>]] :
         u \in 1..2}

AttachmentQueries ==
    {[by |-> "all", id |-> 0]}
        \cup {[by |-> b, id |-> i] : b \in {"thread", "message"}, i \in 1..MaxParts}

AttachmentInputs ==
    {[fn |-> "attachments",
      db |-> [part |-> p,
              mms |-> {[_id |-> i, thread_id |-> (i + 1) \div 2] : i \in 1..MaxParts}],
      index |-> ix] :
         p \in Tables(PartRows, MaxParts), ix \in Tables(IndexEntries, MaxParts)}

\* A call of one of the attachment queries.
GetAttachments(query) ==
    /\ input.fn = "attachments"
    /\ output = NoOutput
    /\ output' = [fn |-> "attachments", query |-> query,
                  r |-> sbk_get_attachments_query(input.db, input.index, query)]
    /\ UNCHANGED <<backup, file, state, ctx, held, last, pass, extracted, input>>

(***************************************************************************)
(* Mentions.  Texts and names are strings of bytes.                        *)
(***************************************************************************)
\* Parts a text of the model is made of, and rows of the mention table.
MaxTokens == 3
MaxMentions == 3

\* "\357\277\274", the UTF-8 encoding of U+FFFC, and "@".
SBK_MENTION_PLACEHOLDER == <<239, 191, 188>>
SBK_MENTION_PREFIX == <<64>>

SBK_DB_VERSION_MENTIONS == 68

\* The recipient cache (ctx->recipients) of the model: two contacts and a
\* group; a field that is NULL is the empty tuple of strings.
Recipients ==
    [id \in 1..3 |->
        IF id = 1
        THEN [type |-> "contact", system_display_name |-> <<<<65>>>>,
              profile_joined_name |-> <<<<88>>>>, profile_name |-> <<>>,
              phone |-> <<<<43, 49>>>>, email |-> <<>>, name |-> <<>>]
        ELSE IF id = 2
        THEN [type |-> "contact", system_display_name |-> <<>>,
              profile_joined_name |-> <<>>, profile_name |-> <<<<66, 111>>>>,
              phone |-> <<<<43, 50>>>>, email |-> <<>>, name |-> <<>>]
        ELSE [type |-> "group", system_display_name |-> <<>>,
              profile_joined_name |-> <<>>, profile_name |-> <<>>,
              phone |-> <<>>, email |-> <<>>, name |-> <<>>]]

\* sbk_get_recipient_display_name; "Unknown" when no name is set.
sbk_get_recipient_display_name(rcp) ==
    IF rcp.type = "contact" /\ rcp.system_display_name # <<>>
    THEN rcp.system_display_name[1]
    ELSE IF rcp.type = "contact" /\ rcp.profile_joined_name # <<>>
    THEN rcp.profile_joined_name[1]
    ELSE IF rcp.type = "contact" /\ rcp.profile_name # <<>>
    THEN rcp.profile_name[1]
    ELSE IF rcp.type = "contact" /\ rcp.phone # <<>> THEN rcp.phone[1]
    ELSE IF rcp.type = "contact" /\ rcp.email # <<>> THEN rcp.email[1]
    ELSE IF rcp.type = "group" /\ rcp.name # <<>> THEN rcp.name[1]
    ELSE <<85, 110, 107, 110, 111, 119, 110>>

\* A variant with ORDER BY range_start DESC.
RECURSIVE SBK_MENTIONS_QUERY_descending(_, _)
SBK_MENTIONS_QUERY_descending(mention, message_id) ==
    LET rows == {r \in mention : r.message_id = message_id}
        m == CHOOSE r \in rows : \A q \in rows : r.range_start >= q.range_start
    IN  IF rows = {} THEN <<>>
        ELSE <<m.recipient_id>>
                 \o SBK_MENTIONS_QUERY_descending(mention \ {m}, message_id)

\* SELECT recipient_id FROM mention WHERE message_id = ? ORDER BY range_start
RECURSIVE SBK_MENTIONS_QUERY(_, _)
SBK_MENTIONS_QUERY(mention, message_id) ==
    LET rows == {r \in mention : r.message_id = message_id}
        m == CHOOSE r \in rows : \A q \in rows : r.range_start <= q.range_start
    IN  IF rows = {} THEN <<>>
        ELSE <<m.recipient_id>> \o SBK_MENTIONS_QUERY(mention \ {m}, message_id)

\* strstr(textpos, SBK_MENTION_PLACEHOLDER): the position of the first
\* placeholder at or after pos, 0 when there is none.
RECURSIVE strstr(_, _)
strstr(text, pos) ==
    IF pos + Len(SBK_MENTION_PLACEHOLDER) - 1 > Len(text) THEN 0
    ELSE IF SubSeq(text, pos, pos + Len(SBK_MENTION_PLACEHOLDER) - 1)
                = SBK_MENTION_PLACEHOLDER
    THEN pos
    ELSE strstr(text, pos + 1)

\* The error exit of sbk_insert_mentions; ub: a write went past the end of
\* newtext before the exit was taken.
MentionError(text, ub) ==
    [ret |-> 0 - 1, text |-> text, error |-> "Invalid mention in message", ub |-> ub]

\* The first loop of sbk_insert_mentions: the length of the new text, or -1
\* when the text is shorter than a placeholder.
RECURSIVE NewTextLen(_, _)
NewTextLen(newtextlen, names) ==
    IF names = <<>> THEN newtextlen
    ELSE IF newtextlen < Len(SBK_MENTION_PLACEHOLDER) THEN 0 - 1
    ELSE NewTextLen(newtextlen - Len(SBK_MENTION_PLACEHOLDER)
                        + Len(SBK_MENTION_PREFIX) + Len(Head(names)),
                    Tail(names))

\* The second loop of sbk_insert_mentions and what follows it.  textpos: the
\* position in the text; newtext: the bytes written so far into the buffer of
\* size bytes; a write past its end is undefined behaviour.
RECURSIVE WriteMentions(_, _, _, _, _, _)
WriteMentions(text, textpos, newtext, names, size, ub) ==
    LET placeholderpos == strstr(text, textpos)
        written == newtext \o SubSeq(text, textpos, placeholderpos - 1)
                       \o SBK_MENTION_PREFIX \o Head(names)
        rest == newtext \o SubSeq(text, textpos, Len(text))
    IN  IF names # <<>>
        THEN IF placeholderpos = 0 THEN MentionError(text, ub)
             ELSE WriteMentions(text,
                                placeholderpos + Len(SBK_MENTION_PLACEHOLDER),
                                written, Tail(names), size,
                                ub \/ Len(written) > size)
        ELSE IF placeholderpos # 0 THEN MentionError(text, ub)
        ELSE [ret |-> 0, text |-> rest, error |-> "",
              ub |-> ub \/ Len(rest) + 1 > size]

\* sbk_get_mentions: the recipients of the rows, looked up in the cache.
sbk_get_mentions(ids) ==
    IF \E i \in DOMAIN ids : ids[i] \notin DOMAIN Recipients
    THEN QueryError("Cannot find recipient")
    ELSE [ok |-> TRUE, lst |-> [i \in DOMAIN ids |-> Recipients[ids[i]]],
          error |-> ""]

\* sbk_get_mentions_for_message: no list before SBK_DB_VERSION_MENTIONS.
sbk_get_mentions_for_message(db, mms_id) ==
    IF db.version < SBK_DB_VERSION_MENTIONS
    THEN [ok |-> TRUE, lst |-> <<>>, error |-> ""]
    ELSE sbk_get_mentions(SBK_MENTIONS_QUERY(db.mention, mms_id))

\* sbk_insert_mentions on the text of the message mms_id.
sbk_insert_mentions(db, text, mms_id) ==
    LET m == sbk_get_mentions_for_message(db, mms_id)
        names == [i \in DOMAIN m.lst |-> sbk_get_recipient_display_name(m.lst[i])]
        newtextlen == NewTextLen(Len(text), names)
    IN  IF ~m.ok THEN [ret |-> 0 - 1, text |-> text, error |-> m.error, ub |-> FALSE]
        ELSE IF m.lst = <<>>
        THEN [ret |-> 0, text |-> text, error |-> "", ub |-> FALSE]
        ELSE IF newtextlen < 0 THEN MentionError(text, FALSE)
        ELSE WriteMentions(text, 1, <<>>, names, newtextlen + 1, FALSE)

\* The texts of the model: up to MaxTokens parts, each a placeholder, a
\* letter, or the first byte of a placeholder alone.
Texts ==
    LET part == {SBK_MENTION_PLACEHOLDER, <<72>>, <<239>>}
        RECURSIVE Cat(_)
        Cat(s) == IF s = <<>> THEN <<>> ELSE Head(s) \o Cat(Tail(s))
    IN  {Cat(s) : s \in SeqsUpTo(part, MaxTokens)}

\* The rows of the mention table with range_start s: of the message 1 with
\* either contact as recipient, or of the message 2.
MentionRows(s) ==
    {[message_id |-> 1, range_start |-> MaxMentions - s, recipient_id |-> r] :
         r \in 1..2}

MentionInputs ==
    {[fn |-> "mentions", text |-> t, mms_id |-> 1,
      db |-> [mention |-> m \cup {[message_id |-> 2, range_start |-> 0,
                                  recipient_id |-> 3]},
              version |-> v]] :
         t \in Texts, m \in Tables(MentionRows, MaxMentions),
         v \in {SBK_DB_VERSION_MENTIONS - 1, SBK_DB_VERSION_MENTIONS}}

\* What a call of sbk_insert_mentions can leave: what the function computes,
\* or, after a write past the end of newtext, a process that was killed.
InsertMentionsOutcomes(r) ==
    IF r.ub THEN {r, [ret |-> 0 - 2, text |-> <<>>, error |-> "killed", ub |-> TRUE]}
    ELSE {r}

\* A call of sbk_insert_mentions.
InsertMentions ==
    /\ input.fn = "mentions"
    /\ output = NoOutput
    /\ \E r \in InsertMentionsOutcomes(
                    sbk_insert_mentions(input.db, input.text, input.mms_id)) :
           output' = [fn |-> "mentions", r |-> r]
    /\ UNCHANGED <<backup, file, state, ctx, held, last, pass, extracted, input>>

(***************************************************************************)
(* The body of a message.  The type of a message is a bit-field: the base  *)
(* type (msg->type & SBK_BASE_TYPE_MASK) and the set of the bits above it  *)
(* that are set, both by the names sbk.c tests them with.  A format is the *)
(* tuple of the pieces around its %s.                                      *)
(***************************************************************************)
\* Bits set at once in a type of the model.
MaxBits == 2

\* A variant that takes only the outgoing calls as outgoing.
sbk_is_outgoing_message_calls_only(type) ==
    type.base \in {"SBK_OUTGOING_AUDIO_CALL_TYPE", "SBK_OUTGOING_VIDEO_CALL_TYPE"}

sbk_is_outgoing_message(type) ==
    type.base \in {"SBK_OUTGOING_AUDIO_CALL_TYPE", "SBK_BASE_OUTBOX_TYPE",
                   "SBK_BASE_SENDING_TYPE", "SBK_BASE_SENT_TYPE",
                   "SBK_BASE_SENT_FAILED_TYPE",
                   "SBK_BASE_PENDING_SECURE_SMS_FALLBACK",
                   "SBK_BASE_PENDING_INSECURE_SMS_FALLBACK",
                   "SBK_OUTGOING_VIDEO_CALL_TYPE"}

\* The switch on the base type at the end of sbk_get_body; <<>> is fmt == NULL.
BodyFormatOfBase(base) ==
    IF base \in {"SBK_INCOMING_AUDIO_CALL_TYPE", "SBK_INCOMING_VIDEO_CALL_TYPE"}
    THEN <<"", " called you">>
    ELSE IF base \in {"SBK_OUTGOING_AUDIO_CALL_TYPE", "SBK_OUTGOING_VIDEO_CALL_TYPE"}
    THEN <<"Called ", "">>
    ELSE IF base = "SBK_MISSED_AUDIO_CALL_TYPE"
    THEN <<"Missed audio call from ", "">>
    ELSE IF base = "SBK_JOINED_TYPE" THEN <<"", " is on Signal">>
    ELSE IF base = "SBK_UNSUPPORTED_MESSAGE_TYPE"
    THEN <<"Unsupported message sent from a newer version of Signal">>
    ELSE IF base = "SBK_INVALID_MESSAGE_TYPE" THEN <<"Invalid message">>
    ELSE IF base = "SBK_PROFILE_CHANGE_TYPE" THEN <<"", " changed their profile">>
    ELSE IF base = "SBK_MISSED_VIDEO_CALL_TYPE"
    THEN <<"Missed video call from ", "">>
    ELSE IF base = "SBK_GV1_MIGRATION_TYPE"
    THEN <<"This group was updated to a new group">>
    ELSE <<>>

\* The format sbk_get_body chooses for a type.
BodyFormat(type) ==
    IF "SBK_ENCRYPTION_REMOTE_FAILED_BIT" \in type.bits
    THEN <<"Bad encrypted message">>
    ELSE IF "SBK_ENCRYPTION_REMOTE_NO_SESSION_BIT" \in type.bits
    THEN <<"Message encrypted for non-existing session">>
    ELSE IF "SBK_ENCRYPTION_REMOTE_DUPLICATE_BIT" \in type.bits
    THEN <<"Duplicate message">>
    ELSE IF \/ "SBK_ENCRYPTION_REMOTE_LEGACY_BIT" \in type.bits
            \/ "SBK_ENCRYPTION_REMOTE_BIT" \in type.bits
    THEN <<"Encrypted message sent from an older version of Signal that is no longer supported">>
    ELSE IF "SBK_GROUP_UPDATE_BIT" \in type.bits
    THEN IF sbk_is_outgoing_message(type) THEN <<"You updated the group">>
         ELSE <<"", " updated the group">>
    ELSE IF "SBK_GROUP_QUIT_BIT" \in type.bits
    THEN IF sbk_is_outgoing_message(type) THEN <<"You have left the group">>
         ELSE <<"", " has left the group">>
    ELSE IF "SBK_END_SESSION_BIT" \in type.bits
    THEN IF sbk_is_outgoing_message(type) THEN <<"You reset the secure session">>
         ELSE <<"", " reset the secure session">>
    ELSE IF "SBK_KEY_EXCHANGE_IDENTITY_VERIFIED_BIT" \in type.bits
    THEN IF sbk_is_outgoing_message(type)
         THEN <<"You marked your safety number with ", " verified">>
         ELSE <<"You marked your safety number with ",
                " verified from another device">>
    ELSE IF "SBK_KEY_EXCHANGE_IDENTITY_DEFAULT_BIT" \in type.bits
    THEN IF sbk_is_outgoing_message(type)
         THEN <<"You marked your safety number with ", " unverified">>
         ELSE <<"You marked your safety number with ",
                " unverified from another device">>
    ELSE IF "SBK_KEY_EXCHANGE_CORRUPTED_BIT" \in type.bits
    THEN <<"Corrupt key exchange message">>
    ELSE IF "SBK_KEY_EXCHANGE_INVALID_VERSION_BIT" \in type.bits
    THEN <<"Key exchange message for invalid protocol version">>
    ELSE IF "SBK_KEY_EXCHANGE_BUNDLE_BIT" \in type.bits
    THEN <<"Message with new safety number">>
    ELSE IF "SBK_KEY_EXCHANGE_IDENTITY_UPDATE_BIT" \in type.bits
    THEN <<"Your safety number with ", " has changed">>
    ELSE IF "SBK_KEY_EXCHANGE_BIT" \in type.bits
    THEN <<"Key exchange message">>
    ELSE BodyFormatOfBase(type.base)

\* sbk_get_body: the text of the message after the call; name is the display
\* name of msg->recipient, which asprintf puts in the place of the %s.
sbk_get_body(type, text, name) ==
    IF BodyFormat(type) = <<>> THEN text
    ELSE IF Len(BodyFormat(type)) = 1 THEN BodyFormat(type)[1]
    ELSE BodyFormat(type)[1] \o name \o BodyFormat(type)[2]

\* The messages of the model: up to MaxBits of the bits sbk_get_body tests,
\* with a base type sbk.c names or one it has no case for.
BodyInputs ==
    LET TypeBits ==
            {"SBK_ENCRYPTION_REMOTE_FAILED_BIT",
             "SBK_ENCRYPTION_REMOTE_NO_SESSION_BIT",
             "SBK_ENCRYPTION_REMOTE_DUPLICATE_BIT",
             "SBK_ENCRYPTION_REMOTE_LEGACY_BIT", "SBK_ENCRYPTION_REMOTE_BIT",
             "SBK_GROUP_UPDATE_BIT", "SBK_GROUP_QUIT_BIT", "SBK_END_SESSION_BIT",
             "SBK_KEY_EXCHANGE_IDENTITY_VERIFIED_BIT",
             "SBK_KEY_EXCHANGE_IDENTITY_DEFAULT_BIT",
             "SBK_KEY_EXCHANGE_CORRUPTED_BIT",
             "SBK_KEY_EXCHANGE_INVALID_VERSION_BIT", "SBK_KEY_EXCHANGE_BUNDLE_BIT",
             "SBK_KEY_EXCHANGE_IDENTITY_UPDATE_BIT", "SBK_KEY_EXCHANGE_BIT"}
        BaseTypes ==
            {"SBK_INCOMING_AUDIO_CALL_TYPE", "SBK_OUTGOING_AUDIO_CALL_TYPE",
             "SBK_MISSED_AUDIO_CALL_TYPE", "SBK_JOINED_TYPE",
             "SBK_UNSUPPORTED_MESSAGE_TYPE", "SBK_INVALID_MESSAGE_TYPE",
             "SBK_PROFILE_CHANGE_TYPE", "SBK_MISSED_VIDEO_CALL_TYPE",
             "SBK_GV1_MIGRATION_TYPE", "SBK_INCOMING_VIDEO_CALL_TYPE",
             "SBK_OUTGOING_VIDEO_CALL_TYPE", "SBK_BASE_OUTBOX_TYPE",
             "SBK_BASE_SENDING_TYPE", "SBK_BASE_SENT_TYPE",
             "SBK_BASE_SENT_FAILED_TYPE", "SBK_BASE_PENDING_SECURE_SMS_FALLBACK",
             "SBK_BASE_PENDING_INSECURE_SMS_FALLBACK", "SBK_BASE_INBOX_TYPE"}
    IN  {[fn |-> "body", type |-> [bits |-> b, base |-> t], text |-> "body",
          name |-> "Alice"] :
             b \in {s \in SUBSET TypeBits : Cardinality(s) <= MaxBits},
             t \in BaseTypes}

\* A call of sbk_get_body.
GetBody ==
    /\ input.fn = "body"
    /\ output = NoOutput
    /\ output' = [fn |-> "body",
                  text |-> sbk_get_body(input.type, input.text, input.name)]
    /\ UNCHANGED <<backup, file, state, ctx, held, last, pass, extracted, input>>

(***************************************************************************)
(* The frame decoder of backup.pb-c.c, on the bytes of a frame.  A 64-bit  *)
(* value is the tuple of its 7-bit groups, lowest first, without leading   *)
(* zero groups (zero is the empty tuple).  A decoded message is a tuple    *)
(* indexed by field number: the tuple of the values the field was set to,  *)
(* empty for a field that is NULL or whose has_ flag is 0.                 *)
(***************************************************************************)
\* Fields in a message of the model.
MaxFields == 2

WIRETYPE_VARINT == 0
WIRETYPE_64BIT == 1
WIRETYPE_LENGTH_DELIM == 2
WIRETYPE_32BIT == 5

\* The fields each unpack function has a case for, by field number: the wire
\* type it requires, the kind of the value, the message of a nested field,
\* and whether the field may repeat.
Schema(name) ==
    LET F(wt, kind) == [wt |-> wt, kind |-> kind, sub |-> "", rep |-> FALSE]
        M(sub, rep) == [wt |-> WIRETYPE_LENGTH_DELIM, kind |-> "message",
                        sub |-> sub, rep |-> rep]
        string == F(WIRETYPE_LENGTH_DELIM, "string")
        bytes == F(WIRETYPE_LENGTH_DELIM, "bytes")
        uint64 == F(WIRETYPE_VARINT, "uint64")
        uint32 == F(WIRETYPE_VARINT, "uint32")
        bool == F(WIRETYPE_VARINT, "bool")
    IN  CASE name = "Header" -> <<bytes, bytes>>
          [] name = "SqlParameter" ->
                 <<string, uint64, F(WIRETYPE_64BIT, "double"), bytes, bool>>
          [] name = "SqlStatement" -> <<string, M("SqlParameter", TRUE)>>
          [] name = "SharedPreference" -> <<string, string, string>>
          [] name = "Attachment" -> <<uint64, uint64, uint32>>
          [] name = "DatabaseVersion" -> <<uint32>>
          [] name = "Avatar" -> <<string, uint32, string>>
          [] name = "Sticker" -> <<uint64, uint32>>
          [] name = "BackupFrame" ->
                 <<M("Header", FALSE), M("SqlStatement", FALSE),
                   M("SharedPreference", FALSE), M("Attachment", FALSE),
                   M("DatabaseVersion", FALSE), bool, M("Avatar", FALSE),
                   M("Sticker", FALSE)>>

\* The loop of varint_unpack from the byte i of the varint at pos: the number
\* of bytes read (0: failure) and the groups read.  The shift of the tenth
\* byte by 63 keeps its lowest bit only.
RECURSIVE VarintLoop(_, _, _)
VarintLoop(buf, pos, i) ==
    IF pos + i > Len(buf) \/ i * 7 >= 64 THEN [n |-> 0, g |-> <<>>]
    ELSE IF buf[pos + i] < 128
    THEN [n |-> i + 1,
          g |-> <<IF i = 9 THEN buf[pos + i] % 2 ELSE buf[pos + i]>>]
    ELSE [n |-> VarintLoop(buf, pos, i + 1).n,
          g |-> <<IF i = 9 THEN buf[pos + i] % 2 ELSE buf[pos + i] % 128>>
                    \o VarintLoop(buf, pos, i + 1).g]

\* varint_unpack: the bytes read and the value.
varint_unpack(buf, pos) ==
    LET r == VarintLoop(buf, pos, 0)
        top == {i \in DOMAIN r.g : r.g[i] # 0}
    IN  [n |-> r.n,
         v |-> IF r.n = 0 THEN <<>>
               ELSE SubSeq(r.g, 1, CHOOSE i \in top \cup {0} :
                                       \A j \in top : j <= i)]

\* varint > UINT32_MAX
OverUint32(v) == Len(v) > 5 \/ (Len(v) = 5 /\ v[5] >= 16)

\* The number a value of less than 2^31 is, shifted right by the bits dropped.
RECURSIVE ValueOf(_, _, _)
ValueOf(v, i, dropped) ==
    IF i > Len(v) THEN 0
    ELSE IF i = 1 THEN v[1] \div (2 ^ dropped) + ValueOf(v, 2, dropped)
    ELSE v[i] * 2 ^ (7 * (i - 1) - dropped) + ValueOf(v, i + 1, dropped)

\* tag_unpack
tag_unpack(buf, pos) ==
    LET r == varint_unpack(buf, pos)
    IN  IF r.n = 0 \/ OverUint32(r.v) THEN [n |-> 0, fieldnum |-> 0, wiretype |-> 0]
        ELSE [n |-> r.n, fieldnum |-> ValueOf(r.v, 1, 3),
              wiretype |-> IF r.v = <<>> THEN 0 ELSE r.v[1] % 8]

\* fieldlen_unpack; buflen is Len(buf) - pos + 1, less than 2^28.
fieldlen_unpack(buf, pos) ==
    LET r == varint_unpack(buf, pos)
    IN  IF r.n = 0 \/ Len(r.v) > 4 THEN [n |-> 0, len |-> 0]
        ELSE IF ValueOf(r.v, 1, 0) > Len(buf) - pos + 1 - r.n
        THEN [n |-> 0, len |-> 0]
        ELSE [n |-> r.n, len |-> ValueOf(r.v, 1, 0)]

\* The unpack functions return NULL.
UnpackError == [ok |-> FALSE, msg |-> <<>>]

\* A variant that takes a field whose value is empty or zero as not set.
IsSet_by_value(msg, fieldnum) == msg[fieldnum] # <<>> /\ msg[fieldnum][1] # <<>>

\* ptr != NULL, or the has_ flag, of a field.
IsSet(msg, fieldnum) == msg[fieldnum] # <<>>

RECURSIVE UnpackMessage(_, _, _, _)
RECURSIVE UnpackValue(_, _, _, _, _, _)

\* The value of a field whose tag was accepted: fd is what the message defines
\* for fieldnum, pos the byte after the tag.
UnpackValue(name, buf, pos, msg, fieldnum, fd) ==
    LET l == fieldlen_unpack(buf, pos)
        r == varint_unpack(buf, pos)
        data == SubSeq(buf, pos + l.n, pos + l.n + l.len - 1)
        sub == UnpackMessage(fd.sub, data, 1, [i \in DOMAIN Schema(fd.sub) |-> <<>>])
    IN  IF fd.wt = WIRETYPE_LENGTH_DELIM
        THEN IF l.n = 0 THEN UnpackError
             ELSE IF fd.kind = "message"
             THEN IF ~sub.ok THEN UnpackError
                  ELSE UnpackMessage(name, buf, pos + l.n + l.len,
                                     [msg EXCEPT ![fieldnum] = Append(@, sub.msg)])
             ELSE IF fd.kind = "bytes" /\ l.len = 0 THEN UnpackError
             ELSE UnpackMessage(name, buf, pos + l.n + l.len,
                                [msg EXCEPT ![fieldnum] = <<data>>])
        ELSE IF fd.wt = WIRETYPE_64BIT
        THEN IF Len(buf) - pos + 1 < 8 THEN UnpackError
             ELSE UnpackMessage(name, buf, pos + 8,
                                [msg EXCEPT ![fieldnum] =
                                     <<SubSeq(buf, pos, pos + 7)>>])
        ELSE IF r.n = 0 \/ (fd.kind = "uint32" /\ OverUint32(r.v)) THEN UnpackError
        ELSE UnpackMessage(name, buf, pos + r.n,
                           [msg EXCEPT ![fieldnum] =
                                <<IF fd.kind = "bool" /\ r.v # <<>> THEN <<1>>
                                  ELSE r.v>>])

\* A variant that skips a varint field the message does not define.
UnpackMessage_skipping(name, buf, pos, msg) ==
    LET tag == tag_unpack(buf, pos)
    IN  IF pos > Len(buf) THEN [ok |-> TRUE, msg |-> msg]
        ELSE IF tag.n = 0 THEN UnpackError
        ELSE IF tag.fieldnum \notin DOMAIN Schema(name)
        THEN IF tag.wiretype # WIRETYPE_VARINT \/ varint_unpack(buf, pos + tag.n).n = 0
             THEN UnpackError
             ELSE UnpackMessage(name, buf,
                                pos + tag.n + varint_unpack(buf, pos + tag.n).n, msg)
        ELSE IF ~Schema(name)[tag.fieldnum].rep /\ IsSet(msg, tag.fieldnum)
        THEN UnpackError
        ELSE IF tag.wiretype # Schema(name)[tag.fieldnum].wt THEN UnpackError
        ELSE UnpackValue(name, buf, pos + tag.n, msg, tag.fieldnum,
                         Schema(name)[tag.fieldnum])

\* The loop `while (buflen > 0)' of the unpack function of the message name:
\* buf from pos on is still to read, msg is what was read.
UnpackMessage(name, buf, pos, msg) ==
    LET tag == tag_unpack(buf, pos)
    IN  IF pos > Len(buf) THEN [ok |-> TRUE, msg |-> msg]
        ELSE IF tag.n = 0 THEN UnpackError
        ELSE IF tag.fieldnum \notin DOMAIN Schema(name) THEN UnpackError
        ELSE IF ~Schema(name)[tag.fieldnum].rep /\ IsSet(msg, tag.fieldnum)
        THEN UnpackError
        ELSE IF tag.wiretype # Schema(name)[tag.fieldnum].wt THEN UnpackError
        ELSE UnpackValue(name, buf, pos + tag.n, msg, tag.fieldnum,
                         Schema(name)[tag.fieldnum])

signal__backup_frame__unpack(buf) ==
    UnpackMessage("BackupFrame", buf, 1, [i \in DOMAIN Schema("BackupFrame") |-> <<>>])

\* What the loop of sbk_create_database calls for a frame it got.
FrameHandler(frm) ==
    IF IsSet(frm, 5) THEN "sbk_set_database_version"
    ELSE IF IsSet(frm, 2) THEN "sbk_exec_statement"
    ELSE IF IsSet(frm, 4) THEN "sbk_insert_attachment_entry"
    ELSE "sbk_free_file"

\* The end of sbk_get_frame on a decoded frame: the error that
\* sbk_skip_file_data (skip) or sbk_get_file (get) sets and that makes the
\* call return NULL, "" when the frame is returned.
FileDataError(frm, wantfile) ==
    LET skip == IF IsSet(frm, 4) /\ IsSet(frm[4][1], 3) THEN ""
                ELSE IF IsSet(frm, 7) /\ IsSet(frm[7][1], 2) THEN ""
                ELSE IF IsSet(frm, 8) /\ IsSet(frm[8][1], 2) THEN ""
                ELSE "Invalid frame"
        get == IF IsSet(frm, 4)
               THEN IF ~IsSet(frm[4][1], 3) THEN "Invalid attachment frame" ELSE ""
               ELSE IF IsSet(frm, 7)
               THEN IF ~IsSet(frm[7][1], 2) THEN "Invalid avatar frame" ELSE ""
               ELSE IF IsSet(frm, 8)
               THEN IF ~IsSet(frm[8][1], 2) THEN "Invalid sticker frame" ELSE ""
               ELSE ""
    IN  IF ~(IsSet(frm, 4) \/ IsSet(frm, 7) \/ IsSet(frm, 8)) THEN ""
        ELSE IF ~wantfile THEN skip
        ELSE IF get # "" THEN get
        ELSE skip

(***************************************************************************)
(* The frames of the model, as the writer of a backup lays them out: a     *)
(* frame is a tuple of fields, a field has a number, a wire type, the bytes *)
(* of its value (val) or, for a nested message, the fields of it (sub).    *)
(***************************************************************************)
\* A field with a varint / a length-delimited / a fixed-size value.
WireField(num, wt, val) == [num |-> num, wt |-> wt, val |-> val, sub |-> <<>>]

\* A nested message.
WireMessage(num, sub) ==
    [num |-> num, wt |-> WIRETYPE_LENGTH_DELIM, val |-> <<0 - 1>>, sub |-> sub]

\* The bytes of a message: for each field the tag, then the varint with its
\* continuation bits, or the length and the bytes, or the fixed-size bytes.
RECURSIVE Wire(_)
Wire(fields) ==
    LET f == Head(fields)
        RECURSIVE Varint(_)
        Varint(v) == IF Len(v) <= 1 THEN (IF v = <<>> THEN <<0>> ELSE v)
                     ELSE <<v[1] + 128>> \o Varint(Tail(v))
    IN  IF fields = <<>> THEN <<>>
        ELSE <<f.num * 8 + f.wt>>
                 \o (IF f.val = <<0 - 1>> THEN <<Len(Wire(f.sub))>> \o Wire(f.sub)
                     ELSE IF f.wt = WIRETYPE_VARINT THEN Varint(f.val)
                     ELSE IF f.wt = WIRETYPE_LENGTH_DELIM THEN <<Len(f.val)>> \o f.val
                     ELSE f.val)
                 \o Wire(Tail(fields))

\* Fields a message of the model can hold: fields it defines, with values
\* that are zero or empty and values that are not, a field it does not
\* define, and fields it defines in a wire type it does not take them in.
Catalogue(name) ==
    LET V(num, v) == WireField(num, WIRETYPE_VARINT, v)
        S(num, b) == WireField(num, WIRETYPE_LENGTH_DELIM, b)
        D(num) == WireField(num, WIRETYPE_64BIT, <<0, 0, 0, 0, 0, 0, 240, 63>>)
        W(num) == WireField(num, WIRETYPE_32BIT, <<1, 0, 0, 0>>)
    IN  CASE name = "Header" ->
                 {S(1, <<7>>), S(2, <<8>>), S(2, <<>>), V(3, <<1>>), V(1, <<7>>)}
          [] name = "SqlParameter" ->
                 {S(1, <<>>), S(1, <<97>>), V(2, <<>>), V(2, <<5>>), D(3),
                  S(4, <<9>>), S(4, <<>>), V(5, <<1>>), V(6, <<1>>), S(2, <<5>>),
                  V(3, <<1>>)}
          [] name = "SqlStatement" ->
                 {S(1, <<>>), S(1, <<115>>), V(3, <<1>>), V(1, <<1>>), V(2, <<1>>)}
                     \cup {WireMessage(2, p) :
                               p \in {<<>>, <<V(2, <<5>>)>>, <<S(1, <<97>>)>>,
                                      <<V(2, <<>>), V(2, <<5>>)>>, <<V(6, <<1>>)>>}}
          [] name = "SharedPreference" ->
                 {S(1, <<>>), S(1, <<102>>), S(2, <<107>>), S(3, <<118>>),
                  S(4, <<1>>), V(2, <<1>>)}
          [] name = "Attachment" ->
                 {V(1, <<>>), V(1, <<44, 2>>), V(2, <<1>>), V(3, <<3>>),
                  V(3, <<0, 0, 0, 0, 16>>), V(4, <<1>>), S(3, <<3>>), W(3)}
          [] name = "DatabaseVersion" ->
                 {V(1, <<>>), V(1, <<68>>), V(2, <<1>>), S(1, <<68>>), W(1)}
          [] name = "Avatar" ->
                 {S(1, <<>>), S(1, <<110>>), V(2, <<3>>), S(3, <<114>>),
                  V(4, <<1>>), V(1, <<1>>), S(2, <<3>>)}
          [] name = "Sticker" ->
                 {V(1, <<>>), V(1, <<4>>), V(2, <<3>>), V(3, <<1>>), S(1, <<4>>)}
          [] name = "BackupFrame" ->
                 {WireMessage(1, <<S(1, <<7>>)>>), WireMessage(2, <<S(1, <<115>>)>>),
                  WireMessage(3, <<S(2, <<107>>)>>),
                  WireMessage(4, <<V(1, <<1>>), V(3, <<3>>)>>),
                  WireMessage(4, <<V(1, <<1>>)>>),
                  WireMessage(5, <<V(1, <<68>>)>>), V(6, <<1>>), V(6, <<>>),
                  WireMessage(7, <<V(2, <<3>>)>>), WireMessage(8, <<V(2, <<3>>)>>),
                  WireMessage(8, <<>>), V(9, <<1>>), S(6, <<1>>), V(2, <<1>>)}

\* The frames of the model: up to MaxFields fields of the frame; one nested
\* message of up to MaxFields fields; a statement with one parameter of up to
\* MaxFields fields.
FrameTrees ==
    SeqsUpTo(Catalogue("BackupFrame"), MaxFields)
    \cup UNION {{<<WireMessage(n, sub)>> :
                     sub \in SeqsUpTo(Catalogue(Schema("BackupFrame")[n].sub),
                                      MaxFields)} : n \in {1, 3, 4, 5, 7, 8}}
    \cup {<<WireMessage(2, sub)>> :
              sub \in SeqsUpTo(Catalogue("SqlStatement"), MaxFields)}
    \cup {<<WireMessage(2, <<WireMessage(2, sub)>>)>> :
              sub \in SeqsUpTo(Catalogue("SqlParameter"), MaxFields)}

UnpackInputs == {[fn |-> "unpack", tree |-> t, buf |-> Wire(t)] : t \in FrameTrees}

\* A frame is decoded and, when it decodes, sbk_get_frame looks for its file
\* data, with and without a FileRef asked for, and the loop of
\* sbk_create_database hands it to its handler.
UnpackFrameBytes ==
    /\ input.fn = "unpack"
    /\ output = NoOutput
    /\ output' = [fn |-> "unpack", r |-> signal__backup_frame__unpack(input.buf),
                  handler |-> IF signal__backup_frame__unpack(input.buf).ok
                              THEN FrameHandler(
                                       signal__backup_frame__unpack(input.buf).msg)
                              ELSE "none",
                  error |-> [w \in BOOLEAN |->
                                IF signal__backup_frame__unpack(input.buf).ok
                                THEN FileDataError(
                                         signal__backup_frame__unpack(input.buf).msg,
                                         w)
                                ELSE "Cannot unpack frame"]]
    /\ UNCHANGED <<backup, file, state, ctx, held, last, pass, extracted, input>>

(***************************************************************************)
(* sbk_get_frame on one record: the file holds the record alone, and the   *)
(* context is the one of an open backup in which a frame was read before   *)
(* (the IV holds the counter of that frame) or, with firstframe, the one   *)
(* sbk_open and sbk_rewind read the header with.                           *)
(***************************************************************************)
\* Bytes that follow the length of a record of the model.
MaxRecord == 12

RecordInputs ==
    LET iv == [i \in 1..SBK_IV_LEN |-> i - 1]
        c == [NewCtx EXCEPT !.fpopen = TRUE, !.iv = iv,
                            !.counter = U32Inc(CounterFromIv(iv)),
                            !.cipherkey = CipherKeyOf(Passphrase, Salt),
                            !.mackey = MacKeyOf(Passphrase, Salt)]
        lengths == {<<0, 0, 0, 0>>, <<255, 255, 255, 255>>, <<128, 0, 0, 0>>,
                    <<0, 0, 0, 1>>, <<0, 0, 0, SBK_MAC_LEN \div 2>>,
                    <<0, 0, 0, SBK_MAC_LEN>>, <<0, 0, 0, SBK_MAC_LEN + 1>>}
        frame == FrameRecord(iv, c.counter, FrameCode(1), FALSE)
        bodies == {[i \in 1..n |-> HdrNoIv] : n \in 0..MaxRecord}
                      \cup {SubSeq(frame, SBK_LEN_LEN + 1, Len(frame))}
    IN  {[fn |-> "get_frame", file |-> l \o b, wantfile |-> w,
          ctx |-> [c EXCEPT !.firstframe = f]] :
             l \in lengths, b \in bodies, w \in BOOLEAN, f \in BOOLEAN}

\* A call of sbk_get_frame on the record.
GetFrameOfRecord ==
    /\ input.fn = "get_frame"
    /\ output = NoOutput
    /\ output' = [fn |-> "get_frame", r |-> sbk_get_frame(input.ctx, input.wantfile)]
    /\ UNCHANGED <<backup, file, state, ctx, held, last, pass, extracted, input>>

(***************************************************************************)
(* Threads and messages: the rows of a query are turned into a list, each  *)
(* with the recipient its first column names.                              *)
(***************************************************************************)
\* Rows of a query of the model.
MaxRows == 2

\* sbk_get_recipient: the recipient of the cache with this id.
sbk_get_recipient(id) ==
    IF id \notin DOMAIN Recipients
    THEN [ok |-> FALSE, rcp |-> Recipients[1], error |-> "Cannot find recipient"]
    ELSE [ok |-> TRUE, rcp |-> Recipients[id], error |-> ""]

\* sbk_get_message for a row without attachments, mentions and reactions.
sbk_get_message(row) ==
    IF ~sbk_get_recipient(row.recipient_id).ok
    THEN [ok |-> FALSE, msg |-> row, error |-> sbk_get_recipient(row.recipient_id).error]
    ELSE [ok |-> TRUE,
          msg |-> [row EXCEPT !.text = sbk_get_body(row.type, @, "Alice")],
          error |-> ""]

\* The loop of sbk_get_messages over the rows left; lst: the list so far.
\* On the error exit the list is freed.
RECURSIVE sbk_get_messages(_, _)
sbk_get_messages(rows, lst) ==
    IF rows = <<>> THEN [ok |-> TRUE, lst |-> lst, error |-> ""]
    ELSE IF ~sbk_get_message(Head(rows)).ok
    THEN QueryError(sbk_get_message(Head(rows)).error)
    ELSE sbk_get_messages(Tail(rows), Append(lst, sbk_get_message(Head(rows)).msg))

\* The loop of sbk_get_threads, likewise.
RECURSIVE sbk_get_threads(_, _)
sbk_get_threads(rows, lst) ==
    IF rows = <<>> THEN [ok |-> TRUE, lst |-> lst, error |-> ""]
    ELSE IF ~sbk_get_recipient(Head(rows).recipient_id).ok
    THEN QueryError(sbk_get_recipient(Head(rows).recipient_id).error)
    ELSE sbk_get_threads(Tail(rows), Append(lst, Head(rows)))

\* The rows of the thread and of the message queries of the model: the
\* recipients 1..3 are in the cache, the recipient 4 is not.
RowInputs ==
    {[fn |-> "threads", rows |-> r] :
         r \in SeqsUpTo({[recipient_id |-> id, id |-> id, date |-> 0, nmessages |-> 1] :
                             id \in 1..4}, MaxRows)}
    \cup
    {[fn |-> "messages", rows |-> r] :
         r \in SeqsUpTo({[recipient_id |-> id, text |-> "hi", thread |-> 1,
                          type |-> [bits |-> {}, base |-> t]] :
                             id \in 1..4,
                             t \in {"SBK_BASE_INBOX_TYPE", "SBK_JOINED_TYPE"}},
                        MaxRows)}

\* A call of sbk_get_threads or of sbk_get_all_messages /
\* sbk_get_messages_for_thread on a database with these rows.
GetRows ==
    /\ input.fn \in {"threads", "messages"}
    /\ output = NoOutput
    /\ output' = [fn |-> "rows",
                  r |-> IF input.fn = "threads" THEN sbk_get_threads(input.rows, <<>>)
                        ELSE sbk_get_messages(input.rows, <<>>)]
    /\ UNCHANGED <<backup, file, state, ctx, held, last, pass, extracted, input>>

(***************************************************************************)
(* The attachments, the long text and the mentions of a message: what      *)
(* sbk_get_message does after sbk_get_body.  The text of a message is a    *)
(* string of bytes.                                                        *)
(***************************************************************************)
\* The content type of a long message, by the name sbk.c compares it with.
SBK_LONG_TEXT_TYPE == "SBK_LONG_TEXT_TYPE"

\* TAILQ_FOREACH with its break: the place in the list of the first
\* attachment with the content type of a long message, 0 when there is none.
FirstLongText(lst) ==
    LET at == {i \in DOMAIN lst :
                   /\ lst[i].content_type # <<>>
                   /\ lst[i].content_type[1] = SBK_LONG_TEXT_TYPE}
    IN  IF at = {} THEN 0 ELSE CHOOSE i \in at : \A j \in at : i <= j

\* A variant that leaves the list as it is.
TAILQ_REMOVE_keeps(lst, k) == lst

\* TAILQ_REMOVE of the element at place k.
TAILQ_REMOVE(lst, k) == SubSeq(lst, 1, k - 1) \o SubSeq(lst, k + 1, Len(lst))

\* sbk_get_long_message after sbk_get_file_as_string (r) on the attachment at
\* place k.
LongMessageRead(r, msg, k) ==
    IF r.ret # 0 THEN [ret |-> 0 - 1, msg |-> msg, ctx |-> r.ctx]
    ELSE [ret |-> 0, ctx |-> r.ctx,
          msg |-> [msg EXCEPT !.text = r.out,
                              !.attachments = TAILQ_REMOVE(@, k)]]

\* sbk_get_long_message after its loop has stopped at place k.
LongMessageFound(c, msg, k) ==
    IF k = 0 THEN [ret |-> 0, msg |-> msg, ctx |-> c]
    ELSE IF msg.attachments[k].status # SBK_ATTACHMENT_TRANSFER_DONE
    THEN [ret |-> 0, msg |-> msg, ctx |-> c]
    ELSE IF msg.attachments[k].file = NoFile
    THEN [ret |-> 0 - 1, msg |-> msg,
          ctx |-> SetError(c, "Long-message attachment not available")]
    ELSE LongMessageRead(sbk_get_file_as_string(c, msg.attachments[k].file),
                         msg, k)

sbk_get_long_message(c, msg) ==
    LongMessageFound(c, msg, FirstLongText(msg.attachments))

\* The error exit of sbk_get_message: no message is returned.
MessageError(c, msg, error) ==
    [ok |-> FALSE, msg |-> msg, ctx |-> c, error |-> error, ub |-> FALSE]

\* sbk_get_message after sbk_insert_mentions (m).
MessageMentioned(m, c, msg) ==
    IF m.ret # 0 THEN [MessageError(c, msg, m.error) EXCEPT !.ub = m.ub]
    ELSE [ok |-> TRUE, msg |-> [msg EXCEPT !.text = m.text], ctx |-> c,
          error |-> "", ub |-> m.ub]

\* sbk_get_message from `if (mms_id != -1)' on.
MessageMentions(c, db, msg, mms_id) ==
    IF mms_id # 0 - 1
    THEN MessageMentioned(sbk_insert_mentions(db, msg.text, mms_id), c, msg)
    ELSE [ok |-> TRUE, msg |-> msg, ctx |-> c, error |-> "", ub |-> FALSE]

\* sbk_get_message after sbk_get_long_message (lm).
MessageLong(lm, db, mms_id) ==
    IF lm.ret = 0 - 1 THEN MessageError(lm.ctx, lm.msg, lm.ctx.error)
    ELSE MessageMentions(lm.ctx, db, lm.msg, mms_id)

\* sbk_get_message after sbk_get_attachments_for_message (a).
MessageAttachments(a, c, db, msg, mms_id) ==
    IF ~a.ok THEN MessageError(c, msg, a.error)
    ELSE MessageLong(sbk_get_long_message(c, [msg EXCEPT !.attachments = a.lst]),
                     db, mms_id)

\* sbk_get_message from `if (nattachments > 0)' on, for the message msg that
\* sbk_get_body has left.
sbk_get_message_parts(c, db, index, msg, nattachments, mms_id) ==
    IF nattachments > 0
    THEN MessageAttachments(
             sbk_get_attachments_query(db, index,
                                       [by |-> "message", id |-> mms_id]),
             c, db, msg, mms_id)
    ELSE MessageMentions(c, db, msg, mms_id)

\* Parts of a message of the model.
MaxAttachments == 3

\* The payload of the part i of the messages of the model: a text with a
\* placeholder for the even parts, one without for the odd ones.
LongText(i) ==
    IF i % 2 = 0 THEN SBK_MENTION_PLACEHOLDER \o <<33>> ELSE <<76, 48 + i>>

\* The struct sbk_file of the payload of the part i: the payloads follow each
\* other in the file, the one of the part i written under the counter i.
RECURSIVE LongFilePos(_)
LongFilePos(i) ==
    IF i = 1 THEN 0
    ELSE LongFilePos(i - 1) + Len(LongText(i - 1)) + SBK_MAC_LEN

LongFile(i) ==
    [pos |-> LongFilePos(i), len |-> <<0, Len(LongText(i))>>,
     counter |-> <<0, i>>]

\* The payloads of the parts i.., the one of the part 1 corrupted if bad.
RECURSIVE LongFiles(_, _, _)
LongFiles(iv, i, bad) ==
    IF i > MaxAttachments THEN <<>>
    ELSE FileBytes(iv, <<0, i>>, LongText(i), bad /\ i = 1)
             \o LongFiles(iv, i + 1, bad)

\* The messages of the model: the message 1 of a database of version 68, with
\* up to MaxAttachments parts of either status that are long texts, images
\* or have no content type, with one mention or none, and with a part_count
\* of 0 or MaxAttachments; the payload of the part 1 is sound or corrupted.
LongMessageInputs ==
    LET iv == [i \in 1..SBK_IV_LEN |-> i - 1]
        c == [NewCtx EXCEPT !.fpopen = TRUE, !.iv = iv,
                            !.counter = <<0, MaxAttachments + 1>>,
                            !.cipherkey = CipherKeyOf(Passphrase, Salt),
                            !.mackey = MacKeyOf(Passphrase, Salt)]
        rows(i) == {[ct |-> t, _id |-> i, unique_id |-> 1, pending_push |-> p,
                     data_size |-> Len(LongText(i)), mid |-> 1] :
                        t \in {<<>>, <<"image/png">>, <<SBK_LONG_TEXT_TYPE>>},
                        p \in 0..1}
    IN  {[fn |-> "long_message", ctx |-> c, file |-> LongFiles(iv, 1, b),
          db |-> [part |-> p, mms |-> {[_id |-> 1, thread_id |-> 1]},
                  mention |-> m, version |-> SBK_DB_VERSION_MENTIONS],
          index |-> {[rowid |-> i, attachmentid |-> 1, file |-> LongFile(i)] :
                         i \in 1..MaxAttachments},
          msg |-> [text |-> <<104, 105>>, attachments |-> <<>>],
          nattachments |-> n, mms_id |-> 1] :
             p \in Tables(rows, MaxAttachments),
             m \in {{}, {[message_id |-> 1, range_start |-> 0, recipient_id |-> 1]}},
             b \in BOOLEAN, n \in {0, MaxAttachments}}

\* A call of sbk_get_message on a row of the mms table, seen from the
\* attachments on.
GetMessageParts ==
    /\ input.fn = "long_message"
    /\ output = NoOutput
    /\ output' = [fn |-> "long_message",
                  r |-> sbk_get_message_parts(input.ctx, input.db, input.index,
                                              input.msg, input.nattachments,
                                              input.mms_id)]
    /\ UNCHANGED <<backup, file, state, ctx, held, last, pass, extracted, input>>

(***************************************************************************)
(* The specification of the functions called on their own: the input is    *)
(* drawn, one function is applied to it, and the output stays.             *)
(***************************************************************************)
InitCalls ==
    /\ backup = [hdr |-> HdrOk, iv |-> [i \in 1..SBK_IV_LEN |-> 0], plain |-> <<>>,
                 badf |-> 0, badd |-> 0]
    /\ state = "new"
    /\ ctx = NewCtx
    /\ held = <<>>
    /\ last = NoLast
    /\ pass = NoPass
    /\ extracted = {}
    /\ output = NoOutput
    /\ \/ input \in AttachmentInputs
       \/ input \in MentionInputs
       \/ input \in BodyInputs
       \/ input \in UnpackInputs
       \/ input \in RecordInputs
       \/ input \in RowInputs
       \/ input \in LongMessageInputs
    /\ file = IF input.fn \in {"get_frame", "long_message"} THEN input.file ELSE <<>>

NextCalls ==
    \/ \E query \in AttachmentQueries : GetAttachments(query)
    \/ InsertMentions
    \/ GetBody
    \/ UnpackFrameBytes
    \/ GetFrameOfRecord
    \/ GetRows
    \/ GetMessageParts

SpecCalls == InitCalls /\ [][NextCalls]_vars

(***************************************************************************)
(* C11.  Every attachment that sbk_get_all_attachments,                    *)
(* sbk_get_attachments_for_thread or the attachments of a message return   *)
(* for a part row with pending_push = 0 (ATTACHMENT_TRANSFER_DONE) carries *)
(* the FileRef that the attachment index holds under (_id, unique_id), and *)
(* the length of that FileRef is the data_size of the row; when a selected *)
(* row with that status has no FileRef in the index, or one of another     *)
(* length, the query fails with an error; an attachment of any other       *)
(* status carries no FileRef.                                              *)
(***************************************************************************)
C11_DoneAttachmentsCarryTheirFileRef ==
    output.fn = "attachments" =>
        LET rows == SBK_ATTACHMENTS_SELECT(input.db, output.query)
            Under(r) == {e \in input.index :
                             e.rowid = r._id /\ e.attachmentid = r.unique_id}
            bad == {r \in rows :
                        /\ r.pending_push = 0
                        /\ \A e \in Under(r) : U32Value(e.file.len) # r.data_size}
            lst == output.r.lst
        IN  IF bad # {}
            THEN ~output.r.ok /\ lst = <<>> /\ output.r.error # ""
            ELSE /\ output.r.ok
                 /\ {[_id |-> a.rowid, unique_id |-> a.attachmentid] :
                         a \in {lst[i] : i \in DOMAIN lst}}
                        = {[_id |-> r._id, unique_id |-> r.unique_id] : r \in rows}
                 /\ Len(lst) = Cardinality(rows)
                 /\ \A i \in DOMAIN lst :
                        IF lst[i].status = 0
                        THEN /\ lst[i].file # NoFile
                             /\ U32Value(lst[i].file.len) = lst[i].size
                             /\ \E e \in input.index :
                                    /\ e.rowid = lst[i].rowid
                                    /\ e.attachmentid = lst[i].attachmentid
                                    /\ e.file = lst[i].file
                                    /\ \E r \in rows :
                                           /\ r._id = e.rowid
                                           /\ r.unique_id = e.attachmentid
                                           /\ r.data_size = U32Value(e.file.len)
                        ELSE lst[i].file = NoFile

\* A query has returned an attachment with its FileRef next to one without.
C11_Witness ==
    /\ output.fn = "attachments"
    /\ output.r.ok
    /\ \E i, j \in DOMAIN output.r.lst :
           /\ output.r.lst[i].status = 0
           /\ output.r.lst[i].file # NoFile
           /\ output.r.lst[j].status # 0
           /\ output.r.lst[j].file = NoFile

(***************************************************************************)
(* What the claims about mentions are stated with.                         *)
(***************************************************************************)
\* The number of placeholders in a text.
RECURSIVE Placeholders(_, _)
Placeholders(text, pos) ==
    IF strstr(text, pos) = 0 THEN 0
    ELSE 1 + Placeholders(text, strstr(text, pos) + Len(SBK_MENTION_PLACEHOLDER))

\* The mentions of the message of the input, in range_start order.
MentionsOfInput ==
    LET rows == {r \in input.db.mention : r.message_id = input.mms_id}
    IN  [i \in 1..Cardinality(rows) |->
            CHOOSE r \in rows :
                Cardinality({q \in rows : q.range_start < r.range_start}) = i - 1]

(***************************************************************************)
(* C12.  For a message of a database of version 68 or later with k         *)
(* mentions, k >= 0, sbk_insert_mentions accepts the message only if its   *)
(* text holds exactly k placeholders U+FFFC, and the text it returns holds *)
(* no placeholder of the original text; with any other number of           *)
(* placeholders the call returns an error.                                 *)
(***************************************************************************)
C12_PlaceholdersMatchMentions ==
    (output.fn = "mentions" /\ input.db.version >= 68) =>
        LET k == Len(MentionsOfInput)
            n == Placeholders(input.text, 1)
        IN  /\ output.r.ret = 0 =>
                   (n = k /\ Placeholders(output.r.text, 1) = 0)
            /\ n # k => (output.r.ret = 0 - 1 /\ output.r.error # "")

(***************************************************************************)
(* C13.  For a message with the mentions m1..mk (k >= 1) in range_start    *)
(* order whose text holds k placeholders, sbk_insert_mentions returns the  *)
(* text in which the i-th placeholder from the left is replaced by "@" and *)
(* the display name of the recipient of mi, every other byte staying where *)
(* it was: the pieces of the text between the placeholders, in order, with *)
(* "@" and the i-th name after the i-th piece.                             *)
(***************************************************************************)
C13_MentionsReplaceThePlaceholdersInOrder ==
    LET k == Len(MentionsOfInput)
        name(i) == sbk_get_recipient_display_name(
                       Recipients[MentionsOfInput[i].recipient_id])
        \* The text from pos on, with the placeholders from the i-th on replaced.
        RECURSIVE Replaced(_, _)
        Replaced(pos, i) ==
            IF pos > Len(input.text) THEN <<>>
            ELSE IF /\ pos + 2 <= Len(input.text)
                    /\ SubSeq(input.text, pos, pos + 2) = <<239, 191, 188>>
            THEN <<64>> \o name(i) \o Replaced(pos + 3, i + 1)
            ELSE <<input.text[pos]>> \o Replaced(pos + 1, i)
    IN  (/\ output.fn = "mentions"
         /\ input.db.version >= 68
         /\ k >= 1
         /\ Placeholders(input.text, 1) = k)
            => (output.r.ret = 0 /\ output.r.text = Replaced(1, 1))

\* Two mentions of different recipients were put into a text that has other
\* bytes before, between or after the placeholders.
C13_Witness ==
    /\ output.fn = "mentions"
    /\ output.r.ret = 0
    /\ Len(MentionsOfInput) = 2
    /\ MentionsOfInput[1].recipient_id # MentionsOfInput[2].recipient_id
    /\ Len(input.text) > 2 * Len(SBK_MENTION_PLACEHOLDER)
    /\ output.r.text # input.text

(***************************************************************************)
(* C14.  sbk_get_body sets the text of a message by the first row, in the  *)
(* order of the table, whose bit is set in the type: the encryption        *)
(* failures, then the group update, the group quit and the end of session, *)
(* then the safety number rows, then the key exchange rows; the rows with  *)
(* an outgoing wording take it exactly when the base type is one of the    *)
(* eight outgoing base types.  The table of the base types is used only    *)
(* when no such bit is set, and a type matching neither table leaves the   *)
(* text as it was.  A type with GROUP_UPDATE and the base type SENT gives  *)
(* "You updated the group".                                                *)
(***************************************************************************)
C14_BodyFollowsTheTablesInOrder ==
    LET n == input.name
        out == input.type.base \in
                   {"SBK_BASE_OUTBOX_TYPE", "SBK_BASE_SENDING_TYPE",
                    "SBK_BASE_SENT_TYPE", "SBK_BASE_SENT_FAILED_TYPE",
                    "SBK_BASE_PENDING_SECURE_SMS_FALLBACK",
                    "SBK_BASE_PENDING_INSECURE_SMS_FALLBACK",
                    "SBK_OUTGOING_AUDIO_CALL_TYPE", "SBK_OUTGOING_VIDEO_CALL_TYPE"}
        marked == "You marked your safety number with " \o n
        special ==
            << <<{"SBK_ENCRYPTION_REMOTE_FAILED_BIT"}, "Bad encrypted message">>,
               <<{"SBK_ENCRYPTION_REMOTE_NO_SESSION_BIT"},
                 "Message encrypted for non-existing session">>,
               <<{"SBK_ENCRYPTION_REMOTE_DUPLICATE_BIT"}, "Duplicate message">>,
               <<{"SBK_ENCRYPTION_REMOTE_LEGACY_BIT", "SBK_ENCRYPTION_REMOTE_BIT"},
                 "Encrypted message sent from an older version of Signal that is no longer supported">>,
               <<{"SBK_GROUP_UPDATE_BIT"},
                 IF out THEN "You updated the group" ELSE n \o " updated the group">>,
               <<{"SBK_GROUP_QUIT_BIT"},
                 IF out THEN "You have left the group"
                 ELSE n \o " has left the group">>,
               <<{"SBK_END_SESSION_BIT"},
                 IF out THEN "You reset the secure session"
                 ELSE n \o " reset the secure session">>,
               <<{"SBK_KEY_EXCHANGE_IDENTITY_VERIFIED_BIT"},
                 IF out THEN marked \o " verified"
                 ELSE marked \o " verified from another device">>,
               <<{"SBK_KEY_EXCHANGE_IDENTITY_DEFAULT_BIT"},
                 IF out THEN marked \o " unverified"
                 ELSE marked \o " unverified from another device">>,
               <<{"SBK_KEY_EXCHANGE_CORRUPTED_BIT"}, "Corrupt key exchange message">>,
               <<{"SBK_KEY_EXCHANGE_INVALID_VERSION_BIT"},
                 "Key exchange message for invalid protocol version">>,
               <<{"SBK_KEY_EXCHANGE_BUNDLE_BIT"}, "Message with new safety number">>,
               <<{"SBK_KEY_EXCHANGE_IDENTITY_UPDATE_BIT"},
                 "Your safety number with " \o n \o " has changed">>,
               <<{"SBK_KEY_EXCHANGE_BIT"}, "Key exchange message">> >>
        base ==
            << <<{"SBK_INCOMING_AUDIO_CALL_TYPE", "SBK_INCOMING_VIDEO_CALL_TYPE"},
                 n \o " called you">>,
               <<{"SBK_OUTGOING_AUDIO_CALL_TYPE", "SBK_OUTGOING_VIDEO_CALL_TYPE"},
                 "Called " \o n>>,
               <<{"SBK_MISSED_AUDIO_CALL_TYPE"}, "Missed audio call from " \o n>>,
               <<{"SBK_MISSED_VIDEO_CALL_TYPE"}, "Missed video call from " \o n>>,
               <<{"SBK_JOINED_TYPE"}, n \o " is on Signal">>,
               <<{"SBK_UNSUPPORTED_MESSAGE_TYPE"},
                 "Unsupported message sent from a newer version of Signal">>,
               <<{"SBK_INVALID_MESSAGE_TYPE"}, "Invalid message">>,
               <<{"SBK_PROFILE_CHANGE_TYPE"}, n \o " changed their profile">>,
               <<{"SBK_GV1_MIGRATION_TYPE"},
                 "This group was updated to a new group">> >>
        hits == {i \in DOMAIN special : special[i][1] \cap input.type.bits # {}}
        first == CHOOSE i \in hits : \A j \in hits : i <= j
        rows == {i \in DOMAIN base : input.type.base \in base[i][1]}
    IN  output.fn = "body" =>
            /\ hits # {} => output.text = special[first][2]
            /\ (hits = {} /\ rows # {}) =>
                   \A i \in rows : output.text = base[i][2]
            /\ (hits = {} /\ rows = {}) => output.text = input.text
            /\ (/\ input.type.bits = {"SBK_GROUP_UPDATE_BIT"}
                /\ input.type.base = "SBK_BASE_SENT_TYPE")
                   => output.text = "You updated the group"

\* The example of the claim: GROUP_UPDATE with the base type SENT.
C14_Witness ==
    /\ output.fn = "body"
    /\ input.type = [bits |-> {"SBK_GROUP_UPDATE_BIT"}, base |-> "SBK_BASE_SENT_TYPE"]
    /\ output.text = "You updated the group"

(***************************************************************************)
(* What the claims about the decoder are stated with.                      *)
(***************************************************************************)
\* The message name with the fields it was written with, and every message
\* nested in it, each with its name.
RECURSIVE NestedMessages(_, _)
NestedMessages(name, fields) ==
    {<<name, fields>>}
    \cup UNION {NestedMessages(Schema(name)[fields[i].num].sub, fields[i].sub) :
                    i \in {j \in DOMAIN fields :
                               /\ fields[j].num \in DOMAIN Schema(name)
                               /\ fields[j].val = <<0 - 1>>}}

(***************************************************************************)
(* C15.  A frame that carries two different variants (of header,           *)
(* statement, preference, attachment, version, avatar, sticker; End        *)
(* aside), for example a statement and an attachment, is rejected by the   *)
(* decoder as a parse error and is not dispatched.                         *)
(***************************************************************************)
C15_TwoVariantsAreRejected ==
    output.fn = "unpack" =>
        LET variants == {input.tree[i].num : i \in DOMAIN input.tree}
                            \cap {1, 2, 3, 4, 5, 7, 8}
        IN  Cardinality(variants) >= 2 =>
                (~output.r.ok /\ output.handler = "none")

(***************************************************************************)
(* C16.  In the frame and in every message nested in it, a second field of *)
(* a number the message already holds makes the decode of the frame fail,  *)
(* whatever the value of the first one, an empty string or a zero          *)
(* included; only the parameters of a SqlStatement may repeat, and the     *)
(* decoded statement holds them in the order of the wire.                  *)
(***************************************************************************)
C16_SecondOccurrenceIsAnError ==
    LET Repeats(m) ==
            \E i, j \in DOMAIN m[2] :
                /\ i < j
                /\ m[2][i].num = m[2][j].num
                /\ ~(m[1] = "SqlStatement" /\ m[2][i].num = 2)
        \* The parameter a decoder gives for the fields it was written with.
        Parameter(fields) ==
            [n \in 1..5 |->
                IF \E i \in DOMAIN fields : fields[i].num = n
                THEN LET f == fields[CHOOSE i \in DOMAIN fields : fields[i].num = n]
                     IN  <<IF n = 5 /\ f.val # <<>> THEN <<1>> ELSE f.val>>
                ELSE <<>>]
        written == SelectSeq(input.tree[1].sub, LAMBDA f : f.num = 2)
    IN  output.fn = "unpack" =>
            /\ (\E m \in NestedMessages("BackupFrame", input.tree) : Repeats(m))
                   => ~output.r.ok
            /\ (output.r.ok /\ output.r.msg[2] # <<>> /\ Len(input.tree) = 1) =>
                   /\ Len(output.r.msg[2][1][2]) = Len(written)
                   /\ \A i \in DOMAIN written :
                          output.r.msg[2][1][2][i] = Parameter(written[i].sub)

\* A parameter whose integer is written twice, the first time as zero, was
\* rejected.
C16_Witness ==
    /\ output.fn = "unpack"
    /\ Len(input.tree) = 1 /\ input.tree[1].num = 2
    /\ \E i \in DOMAIN input.tree[1].sub :
           LET p == input.tree[1].sub[i]
           IN  /\ p.num = 2 /\ Len(p.sub) = 2
               /\ p.sub[1] = WireField(2, WIRETYPE_VARINT, <<>>)
               /\ p.sub[2].num = 2
    /\ Len(input.tree[1].sub) = 1
    /\ ~output.r.ok

(***************************************************************************)
(* C17.  The decoder skips no field: a field whose number the message does *)
(* not define, or a field of a defined number in another wire type than    *)
(* the one the message takes it in, makes the decode of the frame fail, in *)
(* the frame and in every message nested in it; a frame that decodes holds *)
(* every field it was written with.                                        *)
(***************************************************************************)
C17_NoFieldIsSkipped ==
    LET Undefined(m) ==
            \E i \in DOMAIN m[2] :
                \/ m[2][i].num \notin DOMAIN Schema(m[1])
                \/ m[2][i].wt # Schema(m[1])[m[2][i].num].wt
    IN  output.fn = "unpack" =>
            /\ (\E m \in NestedMessages("BackupFrame", input.tree) : Undefined(m))
                   => ~output.r.ok
            /\ output.r.ok =>
                   \A i \in DOMAIN input.tree : output.r.msg[input.tree[i].num] # <<>>

\* An attachment with a field 4, which no attachment has, was rejected though
\* everything else in the frame decodes.
C17_Witness ==
    /\ output.fn = "unpack"
    /\ Len(input.tree) = 1 /\ input.tree[1].num = 4
    /\ Len(input.tree[1].sub) = 2
    /\ input.tree[1].sub[1] = WireField(3, WIRETYPE_VARINT, <<3>>)
    /\ input.tree[1].sub[2] = WireField(4, WIRETYPE_VARINT, <<1>>)
    /\ ~output.r.ok

(***************************************************************************)
(* C18.  sbk_get_frame rejects with "Invalid frame size" every record      *)
(* whose four length bytes, read big-endian as a signed 32-bit number, are *)
(* <= 0, and every record after the first whose length is <= 10 and whose  *)
(* bytes are all in the file; it returns no frame for it, the record is    *)
(* not decrypted (the IV is not set from the counter) and the counter is   *)
(* not incremented.                                                        *)
(***************************************************************************)
C18_ShortRecordsAreRejected ==
    LET len == IF file[1] >= 128
               THEN ((file[1] - 256) * 256 + file[2]) * 65536 + file[3] * 256 + file[4]
               ELSE (file[1] * 256 + file[2]) * 65536 + file[3] * 256 + file[4]
    IN  (output.fn = "get_frame" /\ Len(file) >= 4) =>
            ((\/ len <= 0
              \/ ~input.ctx.firstframe /\ len <= 10 /\ Len(file) >= 4 + len)
                 => /\ output.r.frm = NoFrame
                    /\ output.r.ctx.error = "Invalid frame size"
                    /\ output.r.ctx.counter = input.ctx.counter
                    /\ output.r.ctx.iv = input.ctx.iv)

\* A record of 10 bytes after the first frame was rejected, although a call
\* that decrypts would have set the IV from the counter.
C18_Witness ==
    /\ output.fn = "get_frame"
    /\ ~input.ctx.firstframe
    /\ SubSeq(file, 1, 4) = <<0, 0, 0, 10>>
    /\ Len(file) = 14
    /\ output.r.ctx.error = "Invalid frame size"
    /\ sbk_decrypt_init(input.ctx, input.ctx.counter).iv # input.ctx.iv

(***************************************************************************)
(* C19.  For a frame that holds an Attachment (likewise an Avatar or a     *)
(* Sticker) that declares no length, sbk_get_frame sets an error and       *)
(* returns no frame, when the caller asks for the FileRef and when it does *)
(* not, so that the frame reaches no handler and no FileRef is recorded    *)
(* for it.                                                                 *)
(***************************************************************************)
C19_FileFrameWithoutLengthIsAnError ==
    LET NoLength(num, length) ==
            \E i \in DOMAIN input.tree :
                /\ input.tree[i].num = num
                /\ input.tree[i].val = <<0 - 1>>
                /\ \A j \in DOMAIN input.tree[i].sub :
                       input.tree[i].sub[j].num # length
    IN  (/\ output.fn = "unpack"
         /\ NoLength(4, 3) \/ NoLength(7, 2) \/ NoLength(8, 2))
            => \A w \in BOOLEAN : output.error[w] # ""

(***************************************************************************)
(* C20.  When a row of the query names a recipient that is not in the      *)
(* recipient cache, sbk_get_threads and sbk_get_all_messages /             *)
(* sbk_get_messages_for_thread report the error and the caller still       *)
(* obtains the other rows: it can skip the row with the unknown recipient  *)
(* alone.                                                                  *)
(***************************************************************************)
C20_UnknownRecipientCostsOneRow ==
    LET known == SelectSeq(input.rows, LAMBDA row : row.recipient_id \in 1..3)
    IN  (output.fn = "rows" /\ Len(known) < Len(input.rows)) =>
            /\ output.r.error = "Cannot find recipient"
            /\ Len(output.r.lst) = Len(known)
            /\ \A i \in DOMAIN known :
                   output.r.lst[i].recipient_id = known[i].recipient_id

(***************************************************************************)
(* C21.  The cipher key and the MAC key of a context that is not open are  *)
(* all zero and its backup file is closed: after sbk_close, and after a    *)
(* return of -1 of sbk_open that came after the file was opened.  The keys *)
(* of an open context are the ones derived from passphrase and salt, which *)
(* are not zero.                                                           *)
(***************************************************************************)
C21_KeysAreZeroUnlessOpen ==
    /\ state \in {"failed", "closed"} =>
           /\ ctx.cipherkey = ZeroKey /\ ctx.mackey = ZeroKey
           /\ ~ctx.fpopen
    /\ state = "failed" => last.op = "open" /\ last.ret = 0 - 1
    /\ state = "open" =>
           /\ ctx.cipherkey = CipherKeyOf(Passphrase, Salt)
           /\ ctx.mackey = MacKeyOf(Passphrase, Salt)
           /\ ctx.cipherkey # ZeroKey /\ ctx.mackey # ZeroKey
           /\ ctx.fpopen

\* sbk_open has read a header frame without IV from the opened file and has
\* returned -1.
C21_Witness ==
    /\ state = "failed"
    /\ last.op = "open" /\ last.ret = 0 - 1
    /\ ctx.error = "Missing IV"
    /\ ctx.pos > 0
    /\ ctx.cipherkey = ZeroKey /\ ctx.mackey = ZeroKey
    /\ ~ctx.fpopen

(***************************************************************************)
(* C22.  A replay leaves out the statements whose text begins with         *)
(* "create table sqlite_" in upper or lower case: they are not prepared,   *)
(* none of their parameters is bound, the database is not changed by them  *)
(* and the replay goes on with the next frame.  Every other statement of   *)
(* the replay is prepared, gets its parameters bound and is stepped, in    *)
(* the order of the frames; a replay fails on a statement only if SQLite   *)
(* fails on it.                                                            *)
(***************************************************************************)
C22_ReservedTablesAreSkipped ==
    [][
        ReplayStep =>
            /\ ctx'.db # NoDb =>
                   /\ ctx'.db.prepared = StatementsOf(pass'.frames)
                   /\ ctx'.db.rows = StatementsOf(pass'.frames)
                   /\ Len(ctx'.db.binds) = Len(ctx'.db.rows)
                   /\ \A i \in DOMAIN ctx'.db.binds :
                          \E j \in DOMAIN pass'.frames :
                              /\ pass'.frames[j].frm.sql = ctx'.db.rows[i]
                              /\ pass'.frames[j].frm.params = ctx'.db.binds[i]
            /\ \A i \in DOMAIN pass'.frames :
                   (/\ pass'.frames[i].frm.kind = "statement"
                    /\ ReservedTable(pass'.frames[i].frm.sql)) =>
                       \/ i < Len(pass'.frames)
                       \/ pass'.failed
            /\ ctx'.error \in {"Cannot execute SQL statement", "Invalid SQL frame"} =>
                   /\ pass'.frames # <<>>
                   /\ pass'.frames[Len(pass'.frames)].frm.kind = "statement"
                   /\ ~ReservedTable(pass'.frames[Len(pass'.frames)].frm.sql)
    ]_vars

\* A replay has got a statement that creates sqlite_sequence, with a
\* parameter, and the End frame after it: it has returned 0 and SQLite has
\* seen nothing.
C22_Witness ==
    /\ last.op = "create_database" /\ last.ret = 0
    /\ Len(pass.frames) = 3
    /\ pass.frames[2].frm.sql = "CREATE TABLE sqlite_sequence(name,seq)"
    /\ pass.frames[2].frm.params # <<>>
    /\ pass.frames[3].frm.has_end
    /\ ctx.db # NoDb
    /\ ctx.db.prepared = <<>> /\ ctx.db.binds = <<>> /\ ctx.db.rows = <<>>

(***************************************************************************)
(* What the claim about long messages is stated with.                      *)
(***************************************************************************)
\* The rows of the part table of the message of the input, in the order of
\* the query (they have the same unique_id).
PartsOfInput ==
    LET rows == {r \in input.db.part : r.mid = input.mms_id}
    IN  [i \in 1..Cardinality(rows) |->
            CHOOSE r \in rows : Cardinality({q \in rows : q._id < r._id}) = i - 1]

\* The attachment a row of the part table stands for.
AttachmentOfPart(row) ==
    [content_type |-> row.ct, rowid |-> row._id, attachmentid |-> row.unique_id,
     status |-> row.pending_push, size |-> row.data_size,
     file |-> IF row.pending_push = 0 THEN LongFile(row._id) ELSE NoFile]

\* The part is a long-message attachment with the status DONE.
LongAndDone(row) == row.ct = <<SBK_LONG_TEXT_TYPE>> /\ row.pending_push = 0

\* The attachments of the input without the one at place k, in their order.
OthersOfInput(k) ==
    [i \in 1..(Len(PartsOfInput) - 1) |->
        AttachmentOfPart(PartsOfInput[IF i < k THEN i ELSE i + 1])]

\* A text with its placeholders replaced by "@" and the display name of the
\* recipient 1, as the mention of the input asks; the text itself when the
\* message has no mention.
RECURSIVE MentionsPutIn(_)
MentionsPutIn(text) ==
    IF input.db.mention = {} \/ text = <<>> THEN text
    ELSE IF Len(text) >= 3 /\ SubSeq(text, 1, 3) = <<239, 191, 188>>
    THEN <<64, 65>> \o MentionsPutIn(SubSeq(text, 4, Len(text)))
    ELSE <<Head(text)>> \o MentionsPutIn(Tail(text))

(***************************************************************************)
(* C23.  As claimed: a message with part_count > 0 whose attachments hold  *)
(* a long-message attachment with the status DONE is returned with the     *)
(* decrypted payload of that attachment as its text, after the mentions    *)
(* were put into it, and with the other attachments in their order.        *)
(***************************************************************************)
C23_LongMessageReplacesTheText ==
    (/\ output.fn = "long_message"
     /\ output.r.ok
     /\ input.nattachments > 0
     /\ \E k \in DOMAIN PartsOfInput : LongAndDone(PartsOfInput[k]))
        => \E k \in DOMAIN PartsOfInput :
               /\ LongAndDone(PartsOfInput[k])
               /\ output.r.msg.text = MentionsPutIn(LongText(PartsOfInput[k]._id))
               /\ output.r.msg.attachments = OthersOfInput(k)

(***************************************************************************)
(* C23, amended.  sbk_get_long_message looks at the first attachment of    *)
(* the list that has the content type of a long message.  When its status  *)
(* is DONE, a message that is returned has the decrypted payload of that   *)
(* attachment as its text, after the mentions were put into it, and the    *)
(* other attachments in their order.  When its status is not DONE, or the  *)
(* list has no such attachment, the text is the body with its mentions and *)
(* the list holds every attachment.                                        *)
(***************************************************************************)
C23_FirstLongMessageReplacesTheText ==
    (/\ output.fn = "long_message"
     /\ output.r.ok
     /\ input.nattachments > 0)
        => LET long == {k \in DOMAIN PartsOfInput :
                            PartsOfInput[k].ct = <<SBK_LONG_TEXT_TYPE>>}
               first == CHOOSE k \in long : \A j \in long : k <= j
           IN  IF long # {} /\ PartsOfInput[first].pending_push = 0
               THEN /\ output.r.msg.text =
                           MentionsPutIn(LongText(PartsOfInput[first]._id))
                    /\ output.r.msg.attachments = OthersOfInput(first)
               ELSE /\ output.r.msg.text = MentionsPutIn(input.msg.text)
                    /\ output.r.msg.attachments =
                           [i \in DOMAIN PartsOfInput |->
                               AttachmentOfPart(PartsOfInput[i])]

\* A message with a mention is returned with the text of its long-message
\* attachment, in which the mention was put, and with the two attachments
\* that were before and after it in the list.
C23_Witness ==
    /\ output.fn = "long_message"
    /\ output.r.ok
    /\ input.nattachments > 0
    /\ input.db.mention # {}
    /\ Len(PartsOfInput) = 3
    /\ PartsOfInput[1].ct = <<"image/png">>
    /\ LongAndDone(PartsOfInput[2])
    /\ LongAndDone(PartsOfInput[3])
    /\ output.r.msg.text = <<64, 65, 33>>
    /\ Len(output.r.msg.attachments) = 2
    /\ output.r.msg.attachments[1].rowid = 1
    /\ output.r.msg.attachments[2].rowid = 3

(***************************************************************************)
(* C24.  As claimed: sbk_write_file gives decrypted bytes to the output    *)
(* only after the MAC that follows the payload was read and verified: a    *)
(* call that returns -1 has written nothing.                               *)
(***************************************************************************)
C24_NothingWrittenBeforeTheMac ==
    (last.op = "write_file" /\ last.ret = 0 - 1) => last.out = <<>>

(***************************************************************************)
(* C25.  A successful sbk_write_file or sbk_get_file_as_string leaves the  *)
(* backup at the position pos + len + SBK_MAC_LEN of the FileRef, where    *)
(* the MAC of the payload ends, and changes nothing else of the context    *)
(* than the first four bytes of the IV, which get the FileRef's counter:   *)
(* counter, eof, firstframe, keys, database and attachment index are those *)
(* of before the call.                                                     *)
(***************************************************************************)
C25_ExtractionMovesOnlyPositionAndIv ==
    [][(ExtractStep /\ last'.ret = 0) =>
           /\ ctx'.pos = last'.file.pos + U32Value(last'.file.len) + SBK_MAC_LEN
           /\ SubSeq(ctx'.iv, 5, SBK_IV_LEN) = SubSeq(ctx.iv, 5, SBK_IV_LEN)
           /\ ctx' = [ctx EXCEPT !.pos = ctx'.pos,
                                 !.iv = U32ToBytes(last'.file.counter)
                                            \o SubSeq(@, 5, SBK_IV_LEN)]]_vars

\* A payload was extracted after the pass had read the End frame: the
\* backup is left behind the payload's MAC, before the end of the file,
\* with the counter of the pass and not that of the FileRef.
C25_Witness ==
    /\ last.op \in {"write_file", "get_file_as_string"}
    /\ last.ret = 0 /\ last.out = PayloadPlain
    /\ ctx.eof
    /\ ctx.pos = last.file.pos + U32Value(last.file.len) + SBK_MAC_LEN
    /\ ctx.pos < Len(file)
    /\ ctx.counter # last.file.counter
    /\ SubSeq(ctx.iv, 1, 4) = U32ToBytes(last.file.counter)

(***************************************************************************)
(* C26.  A successful sbk_write_file on the FileRef that the call of       *)
(* sbk_get_frame just before it returned does not disturb the pass: the    *)
(* calls of sbk_get_frame that follow, with no rewind, return the frames   *)
(* and FileRefs they would have returned had the payload not been          *)
(* extracted, and end the pass the same way.                               *)
(***************************************************************************)
\* What the next n calls of sbk_get_frame(ctx, &file) return on context c:
\* frame and FileRef of every call up to the first that returns no frame,
\* then whether the pass ended at the End frame and the error it left.
RECURSIVE RestOfPass(_, _)
RestOfPass(c, n) ==
    IF n = 0 THEN <<>>
    ELSE IF sbk_get_frame(c, TRUE).frm = NoFrame
    THEN <<[eof |-> c.eof, error |-> sbk_get_frame(c, TRUE).ctx.error]>>
    ELSE <<[frm |-> sbk_get_frame(c, TRUE).frm,
            file |-> sbk_get_frame(c, TRUE).file]>>
             \o RestOfPass(sbk_get_frame(c, TRUE).ctx, n - 1)

\* sbk_write_file on the FileRef of the sbk_get_frame just before it.
ExtractInPassStep ==
    /\ last.op = "get_frame" /\ last.file # NoFile
    /\ last'.op = "write_file" /\ last'.file = last.file

C26_ExtractionDoesNotDisturbThePass ==
    [][(ExtractInPassStep /\ last'.ret = 0) =>
           RestOfPass(ctx', MaxFrames + 2) = RestOfPass(ctx, MaxFrames + 2)]_vars

\* The payload of the frame just returned was extracted in the first pass,
\* and the pass has frames left to return after it.
C26_Witness ==
    /\ last.op = "write_file" /\ last.ret = 0 /\ last.out = PayloadPlain
    /\ pass.no = 1 /\ ~pass.failed /\ ~ctx.eof
    /\ pass.frames # <<>>
    /\ pass.frames[Len(pass.frames)].frm.kind = "attachment"
    /\ ctx.pos = last.file.pos + U32Value(last.file.len) + SBK_MAC_LEN
    /\ ctx.counter = U32Inc(last.file.counter)
    /\ Len(RestOfPass(ctx, MaxFrames + 2)) >= 2
    /\ RestOfPass(ctx, MaxFrames + 2)[1].frm.kind # "none"

(***************************************************************************)
(* C27.  As claimed: when sbk_get_frame returns a frame that announces a   *)
(* file payload of the declared length n, the FileRef (if the caller asked *)
(* for it) has the position right after the record of the frame and the    *)
(* length n, the backup is left at that position + n + SBK_MAC_LEN, and    *)
(* the counter has advanced by 2, with or without a FileRef.               *)
(***************************************************************************)
\* A number below 2^31 and the sum of a uint32 and a small number, both as
\* <<bit 32, high half, low half>>, so that the sum is not taken modulo 2^32.
WideOf(k) == <<0, k \div Half, k % Half>>
WidePlus(c, n) ==
    <<(c[1] + (c[2] + n) \div Half) \div Half,
      (c[1] + (c[2] + n) \div Half) % Half, (c[2] + n) % Half>>

\* A call of sbk_get_frame that returns a frame with a file payload.
FileFrameStep ==
    /\ GetFrameStep
    /\ last'.ret = 0
    /\ sbk_has_file_data(last'.frm)

C27_PayloadIsSkippedByItsLength ==
    [][FileFrameStep =>
           /\ last'.frm.has_length
           /\ last'.file # NoFile =>
                  /\ last'.file.pos = ctx.pos + SBK_LEN_LEN + RecordLen(ctx.pos)
                  /\ last'.file.len = last'.frm.length
                  /\ last'.file.counter = U32Inc(ctx.counter)
           /\ ctx'.pos >= ctx.pos + SBK_LEN_LEN + RecordLen(ctx.pos)
           /\ WideOf(ctx'.pos - (ctx.pos + SBK_LEN_LEN + RecordLen(ctx.pos)))
                  = WidePlus(last'.frm.length, SBK_MAC_LEN)
           /\ ctx'.counter = U32Plus(ctx.counter, 2)]_vars

(***************************************************************************)
(* C28.  As claimed: a call of sbk_get_frame sets eof when, and only when, *)
(* the frame it decoded has end = true, so that a frame with the end field *)
(* and the value false does not end the pass; and with eof set a call      *)
(* returns no frame and reads nothing.                                     *)
(***************************************************************************)
C28_EofOnlyAtEndTrue ==
    [][GetFrameStep =>
           IF ctx.eof
           THEN last'.ret = 0 - 1 /\ ctx' = ctx
           ELSE ctx'.eof <=> (last'.frm.has_end /\ last'.frm.end)]_vars

(***************************************************************************)
(* C29.  Whenever sbk_create_database returns -1 the context has no        *)
(* database and an empty attachment index afterwards, whatever made the    *)
(* replay fail; and a context without database never has an entry in its   *)
(* index, so that nothing a failed replay recorded can be read later.      *)
(***************************************************************************)
C29_FailedReplayLeavesNothing ==
    /\ (last.op = "create_database" /\ last.ret = 0 - 1) =>
           ctx.db = NoDb /\ ctx.attachments = {}
    /\ ctx.db = NoDb => ctx.attachments = {} /\ IndexedFiles = {}

\* The replay had opened the database and recorded the FileRef of an
\* attachment when a statement failed in SQLite.
C29_Witness ==
    /\ last.op = "create_database" /\ last.ret = 0 - 1
    /\ Len(pass.frames) = 3
    /\ pass.frames[2].frm.kind = "attachment"
    /\ pass.frames[2].file # NoFile
    /\ pass.frames[2].frm.has_ids
    /\ pass.frames[3].frm.sql = "fail"
    /\ ctx.error = "Cannot execute SQL statement"
    /\ ctx.db = NoDb /\ ctx.attachments = {}

(***************************************************************************)
(* C30.  As claimed: a bytes field of length zero is decoded as a field    *)
(* that is set to the empty byte string: the statement frame whose         *)
(* parameter is a blob of no bytes decodes, to a frame the replay hands to *)
(* sbk_exec_statement with that blob, and so does the header frame whose   *)
(* salt is empty.                                                          *)
(***************************************************************************)
\* The statement frame with one parameter, a blob of no bytes.
EmptyBlobFrame ==
    <<WireMessage(2,
          <<WireMessage(2, <<WireField(4, WIRETYPE_LENGTH_DELIM, <<>>)>>)>>)>>

\* The header frame with an IV and a salt of no bytes.
EmptySaltFrame ==
    <<WireMessage(1, <<WireField(1, WIRETYPE_LENGTH_DELIM, <<7>>),
                       WireField(2, WIRETYPE_LENGTH_DELIM, <<>>)>>)>>

C30_EmptyBytesFieldIsDecoded ==
    /\ (output.fn = "unpack" /\ input.tree = EmptyBlobFrame) =>
           /\ output.r.ok
           /\ output.handler = "sbk_exec_statement"
           /\ output.r.msg[2][1][2][1][4] = << <<>> >>
    /\ (output.fn = "unpack" /\ input.tree = EmptySaltFrame) =>
           /\ output.r.ok
           /\ output.r.msg[1][1][1] = << <<7>> >>
           /\ output.r.msg[1][1][2] = << <<>> >>

====
